---- MODULE Spec2Model ----
(***************************************************************************)
(* A model of grahama1970/js-decompiler: the tree-sitter partitioning of   *)
(* a source text into chunks plus a base chunk (runTreeSitter), the        *)
(* category analysis with retries, fallback content and a whole-run        *)
(* timeout (runLLMAnalysis, invokeWithRetry, runPipeline), and the         *)
(* rolling-window summarizer (summarizeText, recursiveReduce).             *)
(*                                                                         *)
(* The module holds one specification per component.  They share the       *)
(* variable list; a specification leaves the other components' variables   *)
(* at their idle values.                                                   *)
(***************************************************************************)
EXTENDS Integers, Sequences, FiniteSets, TLC

VARIABLES
    \* ---- runTreeSitter ----
    ppc,         \* position in processBaseCode: "walk", "ranges", "tail", "emit", "done"
    tree,        \* the syntax tree: nodes in pre-order, node 1 is rootNode
    blank,       \* the lines of sourceCode that hold only whitespace
    chunks,      \* chunks[] of runTreeSitter
    usedRanges,  \* usedRanges of processBaseCode
    rIdx,        \* index of the for-of loop over usedRanges
    lastEnd,     \* lastEnd of processBaseCode
    baseCode,    \* baseCode, as the sequence of the source lines it holds
    \* ---- runPipeline / runLLMAnalysis ----
    provider,    \* argv.llmProvider || LLM_PROVIDER: "vertex" or "ollama"
    backend,     \* what the backend of this run does (see BackendResponses)
    filesReadable, \* the sourcemap and dependency graph paths handed over can be read
    task,        \* categoryPromises: per category, the state of its invokeWithRetry
    synth,       \* the invokeWithRetry of the Final Summary
    apc,         \* position in runLLMAnalysis
    awaitIdx,    \* index of the promise the ollama loop awaits
    analyses,    \* analyses[] of runLLMAnalysis
    synthPrompt, \* the names of the result blocks of finalSummaryPrompt
    outputFile,  \* content of analysis/llm_analysis.md
    summaryFiles, \* the <category>_summary.md files written
    pipe,        \* position in runPipeline
    timedOut,    \* the timeout promise won the race
    \* ---- invokeWithRetry on its own ----
    inv,         \* the state of one invokeWithRetry call
    maxRetries,  \* its maxRetries argument
    calls,       \* the backend calls it has issued
    delays,      \* the delays it has slept, in seconds
    \* ---- summarizeText / recursiveReduce ----
    spc,         \* position in summarizeText
    text,        \* the text argument of summarizeText
    config,      \* fullConfig
    textToReduce, \* the text of the backend call of a final summarization
    sumChunks,   \* chunks of the map step in progress
    chunkIdx,    \* i of its for loop
    chunkSummaries, \* chunkSummaries of the map step in progress
    currentDepth, \* currentDepth of recursiveReduce
    levels,      \* the rounds of backend calls started so far
    summary,     \* the value of the direct or final call: what summarizeText returns
    callPrompt,  \* the system prompt of the latest backend call
    nCalls,      \* the backend calls issued so far
    outcomes,    \* what summarizeChunk returned for the calls of the round in progress
    lastRound,   \* the same for the latest completed map step
    combinedText, \* the joined summaries of the latest completed map step
    \* ---- a single call of a synchronous function ----
    fn,          \* the function called
    fpc,         \* "called" or "returned"
    args,        \* its arguments
    result       \* the value it returned

pvars == <<ppc, tree, blank, chunks, usedRanges, rIdx, lastEnd, baseCode>>

avars == <<provider, backend, filesReadable, task, synth, apc, awaitIdx,
           analyses, synthPrompt, outputFile, summaryFiles, pipe, timedOut>>

rvars == <<inv, maxRetries, calls, delays>>

svars == <<spc, text, config, textToReduce, sumChunks, chunkIdx, chunkSummaries,
           currentDepth, levels, summary, callPrompt, nCalls, outcomes, lastRound,
           combinedText>>

fvars == <<fn, fpc, args, result>>

vars == <<pvars, avars, rvars, svars, fvars>>

\* The idle values of a component's variables, for the specifications of the
\* other components.
PIdle ==
    /\ ppc = "off" /\ tree = <<>> /\ blank = {} /\ chunks = <<>>
    /\ usedRanges = <<>> /\ rIdx = 0 /\ lastEnd = 0 /\ baseCode = <<>>

AIdle ==
    /\ provider = "none" /\ backend = "none" /\ filesReadable = FALSE
    /\ task = <<>> /\ synth = <<>> /\ apc = "off" /\ awaitIdx = 0
    /\ analyses = <<>> /\ synthPrompt = <<>> /\ outputFile = <<>>
    /\ summaryFiles = {} /\ pipe = "off" /\ timedOut = FALSE

RIdle == inv = <<>> /\ maxRetries = 0 /\ calls = 0 /\ delays = <<>>

SIdle ==
    /\ spc = "off" /\ text = <<>> /\ config = <<>> /\ textToReduce = <<>>
    /\ sumChunks = <<>> /\ chunkIdx = 0 /\ chunkSummaries = <<>>
    /\ currentDepth = 0 /\ levels = 0 /\ summary = <<>>
    /\ callPrompt = "none" /\ nCalls = 0
    /\ outcomes = <<>> /\ lastRound = <<>> /\ combinedText = <<>>

FIdle == fn = "none" /\ fpc = "off" /\ args = <<>> /\ result = <<>>

(***************************************************************************)
(* Bounds of the model.                                                    *)
(***************************************************************************)
MaxLines == 4
MaxNodes == 3
MaxRetriesBound == 4
MaxTextLen == 6
MaxRecursionLimit == 1
MaxChunkTextLen == 7
MaxChunkSize == 2
MaxUnits == 3
MaxChunksBefore == 2
MaxNameLen == 4
MaxTokenTextLen == 6
MaxDirs == 3
MaxPerKind == 6

\* ------------------------------------------------------------------------
\* Generic helpers
\* ------------------------------------------------------------------------

\* ------------------------------------------------------------------------
\* runTreeSitter: the syntax tree handed over by the parser
\* ------------------------------------------------------------------------
\* Node types of the grammar that the model draws nodes from.  "program" is
\* the root; "expression_statement" stands for every type without an entry
\* in nodeTypes.
NodeKinds == {"function_declaration", "class_declaration", "method_definition",
              "expression_statement"}

\* nodeTypes: node type -> chunk type, 'other' when there is no entry.
nodeTypes(t) ==
    CASE t = "function_declaration" -> "function"
      [] t = "method_definition"    -> "method"
      [] t = "arrow_function"       -> "arrow_function"
      [] t = "class_declaration"    -> "class"
      [] t = "variable_declaration" -> "variable"
      [] t = "lexical_declaration"  -> "constant"
      [] t = "export_statement"     -> "export"
      [] t = "import_statement"     -> "import"
      [] OTHER                      -> "other"

\* node.children, in source order (nodes are numbered in pre-order).
Children(t, n) ==
    LET ids == {i \in DOMAIN t : t[i].parent = n}
        RECURSIVE Asc(_)
        Asc(S) == IF S = {} THEN <<>>
                  ELSE LET m == CHOOSE x \in S : \A y \in S : x <= y
                       IN <<m>> \o Asc(S \ {m})
    IN Asc(ids)

\* The proper ancestors of node n.
RECURSIVE Ancestors(_, _)
Ancestors(t, n) ==
    IF t[n].parent = 0 THEN {}
    ELSE {t[n].parent} \cup Ancestors(t, t[n].parent)

\* A tree the parser can return for a text of nl lines: node 1 is the program
\* spanning the text, every other node lies inside its parent, siblings come in
\* source order and may share a line (their byte ranges are disjoint, their
\* line ranges need not be), a method is a member of a class.
WellFormedTree(t, nl) ==
    /\ t[1] = [type |-> "program", startLine |-> 1, endLine |-> nl, parent |-> 0]
    /\ \A i \in DOMAIN t : i > 1 =>
         /\ t[i].type \in NodeKinds
         /\ t[i].parent \in 1..(i - 1)
         /\ t[i].parent = i - 1 \/ t[i].parent \in Ancestors(t, i - 1)
         /\ t[i].startLine <= t[i].endLine
         /\ t[t[i].parent].startLine <= t[i].startLine
         /\ t[i].endLine <= t[t[i].parent].endLine
         /\ (t[i].type = "method_definition")
               <=> (t[t[i].parent].type = "class_declaration")
         /\ t[t[i].parent].type # "expression_statement"
         /\ \A j \in 2..(i - 1) :
               t[j].parent = t[i].parent => t[j].endLine <= t[i].startLine

NodeRecords(nl) ==
    [type : NodeKinds, startLine : 1..nl, endLine : 1..nl, parent : 1..MaxNodes]

Extend(S, nl) ==
    {e \in {Append(p[1], p[2]) : p \in S \X NodeRecords(nl)} : WellFormedTree(e, nl)}

RECURSIVE Grow(_, _, _)
Grow(S, nl, k) == IF k = 0 THEN S ELSE S \cup Grow(Extend(S, nl), nl, k - 1)

\* Every well-formed tree with at most MaxNodes nodes below the root.
Trees(nl) ==
    Grow({<<[type |-> "program", startLine |-> 1, endLine |-> nl, parent |-> 0]>>},
         nl, MaxNodes)

\* A line on which a node starts or ends holds a token, so it is not blank.
\* (PInit draws the texts that are not whitespace only.)
BlankSets(t, nl) ==
    SUBSET ((1..nl) \ UNION {{t[i].startLine, t[i].endLine} : i \in 2..Len(t)})

\* sourceCode.split('\n').length
NumLines(t) == t[1].endLine

\* ------------------------------------------------------------------------
\* runTreeSitter.processNode
\* ------------------------------------------------------------------------
\* The chunk pushed for node n.  `node` stands for code: the source slice
\* [node.startIndex, node.endIndex).
ChunkOf(t, n) ==
    [type      |-> nodeTypes(t[n].type),
     startLine |-> t[n].startLine,
     endLine   |-> t[n].endLine,
     node      |-> n]

RECURSIVE processNode(_, _, _)
RECURSIVE processChildren(_, _, _, _)
processNode(t, n, acc) ==
    LET acc1 == IF nodeTypes(t[n].type) # "other"
                THEN Append(acc, ChunkOf(t, n))
                ELSE acc
    IN processChildren(t, Children(t, n), 1, acc1)

\* node.children.forEach((child) => processNode(child, ...))
processChildren(t, kids, i, acc) ==
    IF i > Len(kids) THEN acc
    ELSE processChildren(t, kids, i + 1, processNode(t, kids[i], acc))

\* ------------------------------------------------------------------------
\* runTreeSitter.processBaseCode
\* ------------------------------------------------------------------------
\* Array.prototype.sort((a, b) => a[0] - b[0]): a stable sort on the start line.
RECURSIVE InsertByStart(_, _)
InsertByStart(sorted, r) ==
    IF sorted = <<>> THEN <<r>>
    ELSE IF sorted[Len(sorted)][1] <= r[1] THEN Append(sorted, r)
    ELSE Append(InsertByStart(SubSeq(sorted, 1, Len(sorted) - 1), r),
                sorted[Len(sorted)])

RECURSIVE SortByStart(_)
SortByStart(rs) ==
    IF rs = <<>> THEN <<>>
    ELSE InsertByStart(SortByStart(SubSeq(rs, 1, Len(rs) - 1)), rs[Len(rs)])

UsedRanges(cs) ==
    SortByStart([i \in 1..Len(cs) |-> <<cs[i].startLine, cs[i].endLine>>])

\* sourceCode.split('\n').slice(from, to): the lines from+1 .. to.
LineSlice(from, to) == [i \in 1..(to - from) |-> from + i]

\* The step of the loop body for one [start, end] of usedRanges.
AfterRange(code, last, r) ==
    <<IF last < r[1] - 1 THEN code \o LineSlice(last, r[1] - 1) ELSE code,
      r[2]>>

\* baseCode.trim(): truthy when some line of baseCode is not blank.
TrimNonEmpty(code, bl) == \E i \in DOMAIN code : code[i] \notin bl

BaseChunk(nl, code) ==
    [type |-> "base", startLine |-> 1, endLine |-> nl, node |-> 0, code |-> code]

PInit ==
    /\ ppc = "walk"
    /\ \E nl \in 1..MaxLines :
         /\ tree \in Trees(nl)
         /\ blank \in BlankSets(tree, nl)
         /\ blank # 1..nl
    /\ chunks = <<>>
    /\ usedRanges = <<>>
    /\ rIdx = 1
    /\ lastEnd = 0
    /\ baseCode = <<>>
    /\ AIdle /\ RIdle /\ SIdle /\ FIdle

\* processNode(rootNode), then usedRanges = chunks.map(...).sort(...)
PWalk ==
    /\ ppc = "walk"
    /\ chunks' = processNode(tree, 1, <<>>)
    /\ usedRanges' = UsedRanges(chunks')
    /\ ppc' = "ranges"
    /\ UNCHANGED <<tree, blank, rIdx, lastEnd, baseCode>>
    /\ UNCHANGED <<avars, rvars, svars, fvars>>

\* one iteration of: for (const [start, end] of usedRanges)
PRange ==
    /\ ppc = "ranges"
    /\ rIdx <= Len(usedRanges)
    /\ LET step == AfterRange(baseCode, lastEnd, usedRanges[rIdx])
       IN /\ baseCode' = step[1]
          /\ lastEnd' = step[2]
    /\ rIdx' = rIdx + 1
    /\ UNCHANGED <<ppc, tree, blank, chunks, usedRanges>>
    /\ UNCHANGED <<avars, rvars, svars, fvars>>

\* if (lastEnd < lines.length) baseCode += lines.slice(lastEnd)
PTail ==
    /\ ppc = "ranges"
    /\ rIdx > Len(usedRanges)
    /\ baseCode' = IF lastEnd < NumLines(tree)
                   THEN baseCode \o LineSlice(lastEnd, NumLines(tree))
                   ELSE baseCode
    /\ ppc' = "emit"
    /\ UNCHANGED <<tree, blank, chunks, usedRanges, rIdx, lastEnd>>
    /\ UNCHANGED <<avars, rvars, svars, fvars>>

\* if (baseCode.trim()) chunks.push({name: 'base', ...})
PEmit ==
    /\ ppc = "emit"
    /\ chunks' = IF TrimNonEmpty(baseCode, blank)
                 THEN Append(chunks, BaseChunk(NumLines(tree), baseCode))
                 ELSE chunks
    /\ ppc' = "done"
    /\ UNCHANGED <<tree, blank, usedRanges, rIdx, lastEnd, baseCode>>
    /\ UNCHANGED <<avars, rvars, svars, fvars>>

PNext == PWalk \/ PRange \/ PTail \/ PEmit

SpecPartition == PInit /\ [][PNext]_vars

\* ------------------------------------------------------------------------
\* Properties of the partition
\* ------------------------------------------------------------------------
\* A chunk of processNode whose node lies in no other chunk's node.
TopLevel(c) ==
    /\ c.type # "base"
    /\ \A a \in Ancestors(tree, c.node) : nodeTypes(tree[a].type) = "other"

TopLevelChunks == {i \in DOMAIN chunks : TopLevel(chunks[i])}

BaseChunks == {i \in DOMAIN chunks : chunks[i].type = "base"}

InRange(l, c) == c.startLine <= l /\ l <= c.endLine

\* The lines that lie in no top-level chunk's line range, in ascending order.
UncoveredLines ==
    {l \in 1..NumLines(tree) : \A i \in TopLevelChunks : ~InRange(l, chunks[i])}

RECURSIVE Ascending(_)
Ascending(S) ==
    IF S = {} THEN <<>>
    ELSE LET m == CHOOSE x \in S : \A y \in S : x <= y
         IN <<m>> \o Ascending(S \ {m})

\* C1 (as claimed): after partitioning every line 1..N lies in the recorded
\* line range of a top-level chunk or of the base chunk, and no two top-level
\* chunks have overlapping line ranges.
C1_CoverageNoOverlap ==
    ppc = "done" =>
        /\ \A l \in 1..NumLines(tree) :
              \E i \in TopLevelChunks \cup BaseChunks : InRange(l, chunks[i])
        /\ \A i, j \in TopLevelChunks :
              i # j => \/ chunks[i].endLine < chunks[j].startLine
                       \/ chunks[j].endLine < chunks[i].startLine

\* C2 (as claimed): the base chunk holds exactly the lines that lie in no
\* top-level chunk's range, each of them once.
C2_BaseIsUncovered ==
    (ppc = "done" /\ BaseChunks # {}) =>
        \A i \in BaseChunks : chunks[i].code = Ascending(UncoveredLines)


\* ------------------------------------------------------------------------
\* runLLMAnalysis: categories, backend responses, content
\* ------------------------------------------------------------------------
\* analysisCategories[i].name; the last one is the synthesis category.
CategoryNames ==
    <<"Structure Overview", "Core Functionality", "Data Structures",
      "Module System", "Final Summary">>

\* initialCategories = analysisCategories.slice(0, -1)
InitialCategories == 1..(Len(CategoryNames) - 1)

FinalCategory == Len(CategoryNames)

\* invokeWithRetry(prompt, categoryName, maxRetries = 3)
MaxRetriesDefault == 3

\* A response of the backend: the call rejects ("throw"), resolves with null,
\* with a bare string s, or with an object whose fields content,
\* lc_kwargs.content (lc), message.content (msg) and text are absent ("none"),
\* the empty string or a text ("T").
Response(t, str, content, lc, msg, txt) ==
    [t |-> t, s |-> str, content |-> content, lc |-> lc, msg |-> msg, text |-> txt]

Responses ==
    { Response("throw",  "none", "none", "none", "none", "none"),
      Response("null",   "none", "none", "none", "none", "none"),
      Response("string", "T",    "none", "none", "none", "none"),
      Response("string", "",     "none", "none", "none", "none"),
      Response("object", "none", "T",    "none", "none", "none"),
      Response("object", "none", "",     "none", "none", "none"),
      Response("object", "none", "none", "T",    "none", "none"),
      Response("object", "none", "none", "none", "T",    "none"),
      Response("object", "none", "none", "none", "",     "none"),
      Response("object", "none", "none", "none", "none", "T"),
      Response("object", "none", "none", "none", "none", "none") }

FailingResponses == {r \in Responses : r.t = "throw"}

\* A backend that answers with a text in a content field or fails.
TextResponses ==
    {r \in Responses : r.t = "throw" \/ (r.content = "T" /\ r.t = "object")}

\* JavaScript truthiness of a field value.
Truthy(v) == v # "none" /\ v # ""

\* The content of an analysis: text of the backend, the empty string, the
\* output of generateFallbackContent for a category, the 'Unexpected response
\* format from Ollama' sentinel, or the inline template of the validation loop.
TextContent(v) ==
    IF v = "" THEN [kind |-> "empty", cat |-> ""] ELSE [kind |-> "text", cat |-> ""]

\* generateFallbackContent(categoryName, chunksByType): a template that
\* depends on the category and on the chunk counts of the run only.
generateFallbackContent(categoryName) ==
    [kind |-> "generated", cat |-> categoryName]

SentinelOllama == [kind |-> "sentinelOllama", cat |-> ""]

InlineTemplate(name) == [kind |-> "inline", cat |-> name]

NoContent == [kind |-> "none", cat |-> ""]

Returned(c) == [throws |-> FALSE, content |-> c]

Thrown == [throws |-> TRUE, content |-> NoContent]

\* The vertex branch of invokeWithRetry, from the response to the return.
\* Object.keys(response) throws a TypeError for null.
VertexBranch(r, categoryName) ==
    IF r.t \in {"throw", "null"} THEN Thrown
    ELSE IF Truthy(r.content) THEN Returned(TextContent(r.content))
    ELSE IF Truthy(r.lc) THEN Returned(TextContent(r.lc))
    ELSE IF r.t = "string" THEN Returned(TextContent(r.s))
    ELSE Returned(generateFallbackContent(categoryName))

\* The ollama branch of invokeWithRetry.
OllamaBranch(r, categoryName) ==
    IF r.t \in {"throw", "null"} THEN Thrown
    ELSE IF Truthy(r.msg) THEN Returned(TextContent(r.msg))
    ELSE IF Truthy(r.text) THEN Returned(TextContent(r.text))
    ELSE IF Truthy(r.content) THEN Returned(TextContent(r.content))
    ELSE IF r.t = "string" THEN Returned(TextContent(r.s))
    ELSE Returned(SentinelOllama)

ProviderBranch(prov, r, categoryName) ==
    IF prov = "vertex" THEN VertexBranch(r, categoryName)
    ELSE OllamaBranch(r, categoryName)

\* How the response of a call is classed: a failure, a recognized shape with
\* a text, a recognized shape whose text is empty, or no recognized shape.
\* The recognized fields are the ones the provider's branch reads.
ShapeOf(prov, r) ==
    LET fields == IF prov = "vertex" THEN {r.content, r.lc}
                  ELSE {r.msg, r.text, r.content}
    IN IF r.t \in {"throw", "null"} THEN "fail"
       ELSE IF r.t = "string" THEN (IF r.s = "" THEN "empty" ELSE "ok")
       ELSE IF \E v \in fields : Truthy(v) THEN "ok"
       ELSE IF "" \in fields THEN "empty"
       ELSE "malformed"

\* ------------------------------------------------------------------------
\* invokeWithRetry
\* ------------------------------------------------------------------------
RECURSIVE Pow2(_)
Pow2(n) == IF n = 0 THEN 1 ELSE 2 * Pow2(n - 1)

BackoffDelayFlat(attempt) == 2

\* Math.pow(2, attempt) * 1000 ms, in seconds.
BackoffDelay(attempt) == Pow2(attempt)

\* An invokeWithRetry that has not been called.
NotInvoked == [pc |-> "idle", attempt |-> 0, shape |-> "none", content |-> NoContent]

\* A generatePromptAndAnalyze that awaits category.prompt(chunksByType).
BuildingPrompt == [NotInvoked EXCEPT !.pc = "prompt"]

\* The backend call of the given attempt is issued.
IssueCall(iv, attempt) == [iv EXCEPT !.pc = "call", !.attempt = attempt]

\* The catch block: rethrow on the last attempt, sleep otherwise.
LastAttempt(attempt, retries) == attempt = retries

\* The backend call in flight settles with response r: the try block returns
\* (the promise resolves with the content), or the catch block runs.
AfterResponse(iv, prov, r, categoryName, retries) ==
    LET out == ProviderBranch(prov, r, categoryName)
    IN IF ~out.throws
       THEN [pc |-> "resolved", attempt |-> 0, shape |-> ShapeOf(prov, r),
             content |-> out.content]
       ELSE IF LastAttempt(iv.attempt, retries)
       THEN [pc |-> "rejected", attempt |-> 0, shape |-> "fail", content |-> NoContent]
       ELSE [iv EXCEPT !.pc = "backoff", !.shape = "fail"]

\* The responses the backend of a run can give: "down" fails every call,
\* "text" answers with a text or fails, "any" gives any response.
BackendResponses(b) ==
    CASE b = "down" -> FailingResponses
      [] b = "text" -> TextResponses
      [] OTHER      -> Responses

\* ------------------------------------------------------------------------
\* runPipeline and runLLMAnalysis as processes
\* ------------------------------------------------------------------------
NoFile == [kind |-> "none", sections |-> <<>>]

\* combinedAnalysis: the executive summary and one section per analysis.
CombinedAnalysis(as) == [kind |-> "combined", sections |-> as]

\* errorAnalysis of the catch block of runLLMAnalysis.
ErrorAnalysis == [kind |-> "errorAnalysis", sections |-> <<>>]

\* errorAnalysis of the catch block of runPipeline: the placeholder noting
\* that the analysis failed or timed out.
Placeholder == [kind |-> "placeholder", sections |-> <<>>]

\* fs.writeFile(file, data) is open(file, 'w'), write(fd, data, 0), close(fd),
\* each a step of its own on the thread pool.  The open creates the file or
\* truncates it to length zero.
Truncated == [kind |-> "empty", sections |-> <<>>]

\* The file after write(fd, data, 0) when it holds onDisk.  The write replaces
\* the first length-of-data bytes; what another writer of the same path put
\* there between this writer's open and its write stays behind the data when
\* it is the longer of the two.  The texts' lengths depend on the file name,
\* the chunk statistics, the error message and the contents, which are not
\* part of the state: both outcomes are possible.
Overlay(data, onDisk) ==
    IF onDisk.kind \in {"none", "empty"}
    THEN {data}
    ELSE {data, [kind |-> "mixed", sections |-> <<>>, head |-> data, tail |-> onDisk]}

Running == pipe # "crashed"

\* Promise.all(categoryPromises) resolves: every promise is resolved.
AllResolved(t) == \A i \in InitialCategories : t[i].pc = "resolved"

AnyResolved(t) == \E i \in InitialCategories : t[i].pc = "resolved"

JoinReady(t) == AllResolved(t)

\* The results in the reverse of the order of categoryPromises.
ResultsReversed(t, ids) ==
    [k \in 1..Len(ids) |-> [name |-> CategoryNames[ids[Len(ids) + 1 - k]],
                            content |-> t[ids[Len(ids) + 1 - k]].content]]

\* The results in the order of categoryPromises.
Results(t, ids) ==
    [k \in 1..Len(ids) |-> [name |-> CategoryNames[ids[k]], content |-> t[ids[k]].content]]

RECURSIVE Upto(_)
Upto(n) == IF n = 0 THEN <<>> ELSE Append(Upto(n - 1), n)

\* The result blocks of analysisCategories['Final Summary'].prompt(analyses):
\* one '### name' block per element of previousAnalyses.
FinalSummaryPrompt(as) == [k \in 1..Len(as) |-> as[k].name]

\* The validation loop before the report is written.
Validated(as) ==
    [k \in 1..Len(as) |->
        IF as[k].content.kind = "empty" \/ as[k].content.kind = "sentinelVertex"
        THEN [as[k] EXCEPT !.content = InlineTemplate(as[k].name)]
        ELSE as[k]]

\* A promise rejects with no handler attached: Promise.all attaches one to every
\* category promise, the ollama loop only to the promise it is awaiting.
Unhandled(prov, pos, idx, i) ==
    prov = "ollama" /\ ~(pos = "await" /\ idx = i)

AnalysisInit ==
    /\ provider \in {"vertex", "ollama"}
    /\ filesReadable \in BOOLEAN
    /\ task = [i \in InitialCategories |-> NotInvoked]
    /\ synth = NotInvoked
    /\ apc = "idle"
    /\ awaitIdx = 0
    /\ analyses = <<>>
    /\ synthPrompt = <<>>
    /\ outputFile = NoFile
    /\ summaryFiles = {}
    /\ timedOut = FALSE
    /\ PIdle /\ RIdle /\ SIdle /\ FIdle

\* runLLMAnalysis called on its own: the caller only awaits the promise.
AInit ==
    /\ AnalysisInit
    /\ backend \in {"down", "any"}
    /\ pipe = "caller"

\* runPipeline at the point where it calls runLLMAnalysis and races it
\* against the timeout.
PipeInit ==
    /\ AnalysisInit
    /\ backend \in {"down", "text"}
    /\ pipe = "race"

\* runLLMAnalysis up to its first suspension in the join: the two reads, then
\* the loop that calls generatePromptAndAnalyze() for every initial category.
\* 'Structure Overview' builds its prompt synchronously, so its backend call is
\* issued at once; the other categories await their prompt first.
AStart ==
    /\ Running /\ apc = "idle"
    /\ IF filesReadable
       THEN /\ task' = [i \in InitialCategories |->
                           IF CategoryNames[i] = "Structure Overview"
                           THEN IssueCall(NotInvoked, 1)
                           ELSE BuildingPrompt]
            /\ apc' = IF provider = "vertex" THEN "join" ELSE "await"
            /\ awaitIdx' = IF provider = "vertex" THEN 0 ELSE 1
       ELSE /\ apc' = "threw"
            /\ UNCHANGED <<task, awaitIdx>>
    /\ UNCHANGED <<provider, backend, filesReadable, synth, analyses, synthPrompt,
                   outputFile, summaryFiles, pipe, timedOut>>
    /\ UNCHANGED <<pvars, rvars, svars, fvars>>

\* category.prompt(chunksByType) resolves; invokeWithRetry issues attempt 1.
TaskPromptDone(i) ==
    /\ Running /\ task[i].pc = "prompt"
    /\ task' = [task EXCEPT ![i] = IssueCall(@, 1)]
    /\ UNCHANGED <<provider, backend, filesReadable, synth, apc, awaitIdx, analyses,
                   synthPrompt, outputFile, summaryFiles, pipe, timedOut>>
    /\ UNCHANGED <<pvars, rvars, svars, fvars>>

\* The backend call of category i settles.  A rejection of the category's
\* promise that no handler takes ends the process (Node.js >= 15 raises an
\* unhandled rejection as an uncaught exception).
TaskRespond(i) ==
    /\ Running /\ task[i].pc = "call"
    /\ \E r \in BackendResponses(backend) :
         LET next == AfterResponse(task[i], provider, r, CategoryNames[i],
                                   MaxRetriesDefault)
         IN /\ task' = [task EXCEPT ![i] = next]
            /\ pipe' = IF next.pc = "rejected" /\ Unhandled(provider, apc, awaitIdx, i)
                       THEN "crashed" ELSE pipe
    /\ UNCHANGED <<provider, backend, filesReadable, synth, apc, awaitIdx, analyses,
                   synthPrompt, outputFile, summaryFiles, timedOut>>
    /\ UNCHANGED <<pvars, rvars, svars, fvars>>

\* The backoff timer of category i fires; the next attempt is issued.
TaskBackoffDone(i) ==
    /\ Running /\ task[i].pc = "backoff"
    /\ task' = [task EXCEPT ![i] = IssueCall(@, @.attempt + 1)]
    /\ UNCHANGED <<provider, backend, filesReadable, synth, apc, awaitIdx, analyses,
                   synthPrompt, outputFile, summaryFiles, pipe, timedOut>>
    /\ UNCHANGED <<pvars, rvars, svars, fvars>>

\* The join is over: the final summary prompt is built from analyses and the
\* Final Summary call is issued.
IssueSynthesis(as) ==
    /\ analyses' = as
    /\ synthPrompt' = FinalSummaryPrompt(as)
    /\ synth' = IssueCall(NotInvoked, 1)
    /\ apc' = "synth"

\* analyses = await Promise.all(categoryPromises)
VertexJoin ==
    /\ Running /\ apc = "join" /\ JoinReady(task)
    /\ IssueSynthesis(Results(task, Upto(Len(CategoryNames) - 1)))
    /\ UNCHANGED <<provider, backend, filesReadable, task, awaitIdx,
                   outputFile, summaryFiles, pipe, timedOut>>
    /\ UNCHANGED <<pvars, rvars, svars, fvars>>

\* Promise.all rejects with the first rejection.
VertexJoinFail ==
    /\ Running /\ apc = "join"
    /\ \E i \in InitialCategories : task[i].pc = "rejected"
    /\ apc' = "catch"
    /\ UNCHANGED <<provider, backend, filesReadable, task, synth, awaitIdx, analyses,
                   synthPrompt, outputFile, summaryFiles, pipe, timedOut>>
    /\ UNCHANGED <<pvars, rvars, svars, fvars>>

\* const result = await promise; analyses.push(result); then the 1 s sleep
\* unless this was the last promise.
OllamaAwait ==
    /\ Running /\ apc = "await" /\ task[awaitIdx].pc = "resolved"
    /\ LET as == analyses \o Results(task, <<awaitIdx>>)
       IN IF awaitIdx < Len(CategoryNames) - 1
          THEN /\ analyses' = as
               /\ apc' = "stagger"
               /\ UNCHANGED <<synth, synthPrompt>>
          ELSE IssueSynthesis(as)
    /\ UNCHANGED <<provider, backend, filesReadable, task, awaitIdx,
                   outputFile, summaryFiles, pipe, timedOut>>
    /\ UNCHANGED <<pvars, rvars, svars, fvars>>

OllamaAwaitFail ==
    /\ Running /\ apc = "await" /\ task[awaitIdx].pc = "rejected"
    /\ apc' = "catch"
    /\ UNCHANGED <<provider, backend, filesReadable, task, synth, awaitIdx, analyses,
                   synthPrompt, outputFile, summaryFiles, pipe, timedOut>>
    /\ UNCHANGED <<pvars, rvars, svars, fvars>>

\* The 1 s sleep is over; the loop awaits the next promise.
OllamaStaggerDone ==
    /\ Running /\ apc = "stagger"
    /\ apc' = "await"
    /\ awaitIdx' = awaitIdx + 1
    /\ UNCHANGED <<provider, backend, filesReadable, task, synth, analyses,
                   synthPrompt, outputFile, summaryFiles, pipe, timedOut>>
    /\ UNCHANGED <<pvars, rvars, svars, fvars>>

\* The Final Summary call settles; runLLMAnalysis awaits it, so a rejection
\* goes to its catch block.
SynthRespond ==
    /\ Running /\ apc = "synth" /\ synth.pc = "call"
    /\ \E r \in BackendResponses(backend) :
         LET next == AfterResponse(synth, provider, r, CategoryNames[FinalCategory],
                                   MaxRetriesDefault)
         IN /\ synth' = next
            /\ apc' = CASE next.pc = "resolved" -> "validate"
                        [] next.pc = "rejected" -> "catch"
                        [] OTHER -> apc
    /\ UNCHANGED <<provider, backend, filesReadable, task, awaitIdx, analyses,
                   synthPrompt, outputFile, summaryFiles, pipe, timedOut>>
    /\ UNCHANGED <<pvars, rvars, svars, fvars>>

SynthBackoffDone ==
    /\ Running /\ synth.pc = "backoff"
    /\ synth' = IssueCall(synth, synth.attempt + 1)
    /\ UNCHANGED <<provider, backend, filesReadable, task, apc, awaitIdx, analyses,
                   synthPrompt, outputFile, summaryFiles, pipe, timedOut>>
    /\ UNCHANGED <<pvars, rvars, svars, fvars>>

\* The validation loop, run when the Final Summary call has resolved, up to
\* await fs.mkdir(summaryDir, { recursive: true }).
AValidate ==
    /\ Running /\ apc = "validate"
    /\ analyses' = Validated(analyses)
    /\ apc' = "summaries"
    /\ UNCHANGED <<provider, backend, filesReadable, task, synth, awaitIdx,
                   synthPrompt, outputFile, summaryFiles, pipe, timedOut>>
    /\ UNCHANGED <<pvars, rvars, svars, fvars>>

\* for (const analysis of analyses) await fs.writeFile(categoryFile, ...): one
\* summary file per pass, in the order of analyses.  After the last one the
\* report is assembled and fs.writeFile(outputFile, combinedAnalysis) is called.
ASummaryWrite ==
    /\ Running /\ apc = "summaries"
    /\ LET k == Cardinality(summaryFiles) + 1
       IN /\ summaryFiles' = summaryFiles \cup {analyses[k].name}
          /\ apc' = IF k = Len(analyses) THEN "write" ELSE "summaries"
    /\ UNCHANGED <<provider, backend, filesReadable, task, synth, awaitIdx, analyses,
                   synthPrompt, outputFile, pipe, timedOut>>
    /\ UNCHANGED <<pvars, rvars, svars, fvars>>

\* await fs.writeFile(outputFile, combinedAnalysis), one step of the write at a
\* time: the open, the write of the data, and the close that resolves the
\* promise, after which the metadata is updated and the write of
\* metadata.json is started.
AWrite ==
    /\ Running /\ apc \in {"write", "write.data", "write.close"}
    /\ CASE apc = "write" ->
              /\ outputFile' = Truncated
              /\ apc' = "write.data"
         [] apc = "write.data" ->
              /\ outputFile' \in Overlay(CombinedAnalysis(analyses), outputFile)
              /\ apc' = "write.close"
         [] apc = "write.close" ->
              /\ outputFile' = outputFile
              /\ apc' = "metadata"
    /\ UNCHANGED <<provider, backend, filesReadable, task, synth, awaitIdx, analyses,
                   synthPrompt, summaryFiles, pipe, timedOut>>
    /\ UNCHANGED <<pvars, rvars, svars, fvars>>

\* await fs.writeFile(path.join(metadataDir, 'metadata.json'), ...) is over:
\* 'Saved multi-category LLM analysis' is logged; return combinedAnalysis
AMetadata ==
    /\ Running /\ apc = "metadata"
    /\ apc' = "returned"
    /\ UNCHANGED <<provider, backend, filesReadable, task, synth, awaitIdx, analyses,
                   synthPrompt, outputFile, summaryFiles, pipe, timedOut>>
    /\ UNCHANGED <<pvars, rvars, svars, fvars>>

\* catch (error): await fs.writeFile(outputFile, errorAnalysis), one step of
\* the write at a time; throw error when the write is over.
ACatch ==
    /\ Running /\ apc \in {"catch", "catch.data", "catch.close"}
    /\ CASE apc = "catch" ->
              /\ outputFile' = Truncated
              /\ apc' = "catch.data"
         [] apc = "catch.data" ->
              /\ outputFile' \in Overlay(ErrorAnalysis, outputFile)
              /\ apc' = "catch.close"
         [] apc = "catch.close" ->
              /\ outputFile' = outputFile
              /\ apc' = "threw"
    /\ UNCHANGED <<provider, backend, filesReadable, task, synth, awaitIdx, analyses,
                   synthPrompt, summaryFiles, pipe, timedOut>>
    /\ UNCHANGED <<pvars, rvars, svars, fvars>>

\* await Promise.race([analysisPromise, timeout]): the analysis resolved first.
PipeAnalysisDone ==
    /\ pipe = "race" /\ apc = "returned"
    /\ pipe' = "readme"
    /\ UNCHANGED <<provider, backend, filesReadable, task, synth, apc, awaitIdx,
                   analyses, synthPrompt, outputFile, summaryFiles, timedOut>>
    /\ UNCHANGED <<pvars, rvars, svars, fvars>>

\* The analysis rejected first: the catch block of runPipeline is entered.
PipeAnalysisFailed ==
    /\ pipe = "race" /\ apc = "threw"
    /\ pipe' = "catch"
    /\ UNCHANGED <<provider, backend, filesReadable, task, synth, apc, awaitIdx,
                   analyses, synthPrompt, outputFile, summaryFiles, timedOut>>
    /\ UNCHANGED <<pvars, rvars, svars, fvars>>

\* The timeout promise rejects while the analysis is pending.
PipeTimeout ==
    /\ pipe = "race" /\ apc \notin {"returned", "threw"}
    /\ pipe' = "catch"
    /\ timedOut' = TRUE
    /\ UNCHANGED <<provider, backend, filesReadable, task, synth, apc, awaitIdx,
                   analyses, synthPrompt, outputFile, summaryFiles>>
    /\ UNCHANGED <<pvars, rvars, svars, fvars>>

\* catch (error): await fs.writeFile(path.join(analysisDir, 'llm_analysis.md'),
\* errorAnalysis), one step of the write at a time.  After a timeout
\* runLLMAnalysis is still running and may be writing the same path.
PipeCatch ==
    /\ pipe \in {"catch", "catch.data", "catch.close"}
    /\ CASE pipe = "catch" ->
              /\ outputFile' = Truncated
              /\ pipe' = "catch.data"
         [] pipe = "catch.data" ->
              /\ outputFile' \in Overlay(Placeholder, outputFile)
              /\ pipe' = "catch.close"
         [] pipe = "catch.close" ->
              /\ outputFile' = outputFile
              /\ pipe' = "readme"
    /\ UNCHANGED <<provider, backend, filesReadable, task, synth, apc, awaitIdx,
                   analyses, synthPrompt, summaryFiles, timedOut>>
    /\ UNCHANGED <<pvars, rvars, svars, fvars>>

\* await generateReadme()
PipeReadme ==
    /\ pipe = "readme"
    /\ pipe' = "metadata"
    /\ UNCHANGED <<provider, backend, filesReadable, task, synth, apc, awaitIdx,
                   analyses, synthPrompt, outputFile, summaryFiles, timedOut>>
    /\ UNCHANGED <<pvars, rvars, svars, fvars>>

\* metadata.completed = true; the metadata file is written; 'Pipeline complete.'
PipeMetadata ==
    /\ pipe = "metadata"
    /\ pipe' = "done"
    /\ UNCHANGED <<provider, backend, filesReadable, task, synth, apc, awaitIdx,
                   analyses, synthPrompt, outputFile, summaryFiles, timedOut>>
    /\ UNCHANGED <<pvars, rvars, svars, fvars>>

ANext ==
    \/ AStart
    \/ \E i \in InitialCategories : TaskPromptDone(i)
    \/ \E i \in InitialCategories : TaskRespond(i)
    \/ \E i \in InitialCategories : TaskBackoffDone(i)
    \/ VertexJoin
    \/ VertexJoinFail
    \/ OllamaAwait
    \/ OllamaAwaitFail
    \/ OllamaStaggerDone
    \/ SynthRespond
    \/ SynthBackoffDone
    \/ AValidate
    \/ ASummaryWrite
    \/ AWrite
    \/ AMetadata
    \/ ACatch

PipeNext ==
    \/ ANext
    \/ PipeAnalysisDone
    \/ PipeAnalysisFailed
    \/ PipeTimeout
    \/ PipeCatch
    \/ PipeReadme
    \/ PipeMetadata

SpecAnalysis == AInit /\ [][ANext]_vars

SpecPipeline == PipeInit /\ [][PipeNext]_vars

\* ------------------------------------------------------------------------
\* invokeWithRetry on its own, for every maxRetries
\* ------------------------------------------------------------------------
RInit ==
    /\ provider \in {"vertex", "ollama"}
    /\ backend \in {"down", "any"}
    /\ maxRetries \in 1..MaxRetriesBound
    /\ inv = IssueCall(NotInvoked, 1)
    /\ calls = 1
    /\ delays = <<>>
    /\ filesReadable = FALSE /\ task = <<>> /\ synth = <<>> /\ apc = "off"
    /\ awaitIdx = 0 /\ analyses = <<>> /\ synthPrompt = <<>> /\ outputFile = <<>>
    /\ summaryFiles = {} /\ pipe = "off" /\ timedOut = FALSE
    /\ PIdle /\ SIdle /\ FIdle

\* The call in flight settles; before a retry the catch block sleeps
\* Math.pow(2, attempt) seconds.
RRespond ==
    /\ inv.pc = "call"
    /\ \E r \in BackendResponses(backend) :
         LET next == AfterResponse(inv, provider, r, CategoryNames[1], maxRetries)
         IN /\ inv' = next
            /\ delays' = IF next.pc = "backoff"
                         THEN Append(delays, BackoffDelay(inv.attempt))
                         ELSE delays
    /\ UNCHANGED <<maxRetries, calls>>
    /\ UNCHANGED <<pvars, avars, svars, fvars>>

\* The sleep is over: the loop issues the next attempt.
RBackoffDone ==
    /\ inv.pc = "backoff"
    /\ inv' = IssueCall(inv, inv.attempt + 1)
    /\ calls' = calls + 1
    /\ UNCHANGED <<maxRetries, delays>>
    /\ UNCHANGED <<pvars, avars, svars, fvars>>

RNext == RRespond \/ RBackoffDone

SpecRetry == RInit /\ [][RNext]_vars

\* ------------------------------------------------------------------------
\* Properties of the analysis
\* ------------------------------------------------------------------------
\* The category calls in flight.
InFlight == {i \in InitialCategories : task[i].pc = "call"}

\* The category calls that have been started.
Started == {i \in InitialCategories : task[i].pc \in {"call", "backoff", "resolved", "rejected"}}

\* C3: the Final Summary call is issued only after every initial category has
\* resolved, and its prompt holds exactly one result block per initial category.
C3_SynthesisAfterAll ==
    (apc # "off" /\ synth.pc # "idle") =>
        /\ \A i \in InitialCategories : task[i].pc = "resolved"
        /\ Len(synthPrompt) = Cardinality(InitialCategories)
        /\ \A i \in InitialCategories :
              Cardinality({k \in DOMAIN synthPrompt : synthPrompt[k] = CategoryNames[i]}) = 1

C3_Witness ==
    /\ apc = "synth" /\ synth.pc = "call"
    /\ provider = "ollama"
    /\ \E i \in InitialCategories : task[i].content.kind = "sentinelOllama"

\* C4 (as claimed): under ollama at most one category call is in flight, and a
\* category's call starts only after the earlier categories have settled and
\* the loop has moved on to it.
C4_OllamaOneAtATime ==
    provider = "ollama" =>
        /\ Cardinality(InFlight) <= 1
        /\ \A i \in Started : awaitIdx >= i

\* C5: when every call failed, invokeWithRetry rejects after exactly maxRetries
\* calls, having slept 2^1, 2^2, ... seconds between them, a strictly increasing
\* sequence; it never issues more than maxRetries calls.
C5_RetryExhaustion ==
    inv # <<>> =>
        /\ calls <= maxRetries
        /\ inv.pc = "rejected" =>
              /\ calls = maxRetries
              /\ Len(delays) = maxRetries - 1
              /\ \A k \in DOMAIN delays : delays[k] = 2 ^ k
              /\ \A k \in 1..(Len(delays) - 1) : delays[k] < delays[k + 1]
        /\ (backend = "down" /\ inv.pc \notin {"call", "backoff"}) => inv.pc = "rejected"

C5_Witness ==
    /\ inv # <<>> /\ inv.pc = "rejected" /\ maxRetries = 3 /\ delays = <<2, 4>>

\* C6 (as claimed): with a backend that fails every call, no category fails the
\* analysis: its promise does not reject, runLLMAnalysis does not throw, and
\* the report holds generated fallback content for every category.
C6_FallbackAbsorbsFailure ==
    (apc # "off" /\ backend = "down" /\ filesReadable) =>
        /\ \A i \in InitialCategories : task[i].pc # "rejected"
        /\ apc \notin {"catch", "threw"}
        /\ pipe # "crashed"
        /\ apc = "returned" =>
              /\ outputFile.kind = "combined"
              /\ \A k \in DOMAIN outputFile.sections :
                    outputFile.sections[k].content.kind = "generated"

\* C7 (as claimed): in the report, a category whose gateway result was empty or
\* of an unrecognized shape holds templated fallback content (the validation
\* loop's template is accepted as such).
C7_MalformedGetsFallback ==
    (apc # "off" /\ outputFile.kind = "combined") =>
        \A k \in DOMAIN outputFile.sections :
            task[k].shape \in {"empty", "malformed"} =>
                outputFile.sections[k].content.kind \in {"generated", "inline"}

\* C8 (as claimed): once the placeholder noting the timeout is written, no
\* later step changes llm_analysis.md or the summary files.
C8_AbandonedDiscarded ==
    [][(timedOut /\ outputFile = Placeholder) =>
          (outputFile' = outputFile /\ summaryFiles' = summaryFiles)]_vars

\* C9 (as claimed): a failure or timeout of the analysis never aborts the run:
\* the catch block of runPipeline writes the placeholder, which is the
\* artifact when the write is over, and the run goes on to the readme and to
\* the metadata completion.
C9_PipelineAbsorbsFailure ==
    [][/\ pipe' # "crashed"
       /\ (pipe = "catch" /\ pipe' # pipe) => pipe' = "catch.data"
       /\ (pipe = "catch.data" /\ pipe' # pipe) => pipe' = "catch.close"
       /\ (pipe = "catch.close" /\ pipe' # pipe) =>
             (pipe' = "readme" /\ outputFile' = Placeholder)
       /\ (pipe = "readme" /\ pipe' # pipe) => pipe' = "metadata"
       /\ (pipe = "metadata" /\ pipe' # pipe) => pipe' = "done"]_vars

(***************************************************************************)
(* The rolling-window summarizer (src/src/utils/rolling_window_summarizer.js). *)
(* A text is a sequence of characters.                                      *)
(***************************************************************************)

Chars == {"a", ".", " "}

Texts == UNION { [1..k -> Chars] : k \in 0..MaxTextLen }

IsSpace(c) == c \in {" ", "\n"}

IsStop(c) == c \in {".", "!", "?"}

\* text.trim() === ''
IsBlank(t) == \A i \in 1..Len(t) : IsSpace(t[i])

estimateTokenCountFloor(t) == Len(t) \div 4

\* Math.ceil(text.length / 4)
estimateTokenCount(t) == (Len(t) + 3) \div 4

\* The first index from i on that holds no whitespace, or Len(t) + 1.
RECURSIVE SkipSpace(_, _)
SkipSpace(t, i) ==
    IF i > Len(t) \/ ~IsSpace(t[i]) THEN i ELSE SkipSpace(t, i + 1)

\* text.split(/(?<=[.!?])\s+/): cut at every whitespace run that follows a
\* sentence stop.
RECURSIVE SplitFrom(_, _, _, _)
SplitFrom(t, i, cur, out) ==
    IF i > Len(t) THEN Append(out, cur)
    ELSE IF IsSpace(t[i]) /\ i > 1 /\ IsStop(t[i - 1])
         THEN SplitFrom(t, SkipSpace(t, i), <<>>, Append(out, cur))
         ELSE SplitFrom(t, i + 1, Append(cur, t[i]), out)

SplitSentences(t) == SplitFrom(t, 1, <<>>, <<>>)

\* currentChunk.slice(-n), for a chunk longer than n
SliceLast(t, n) == SubSeq(t, Len(t) - n + 1, Len(t))

SliceFirstPlusOne(t, n) == SubSeq(t, 1, IF n + 1 < Len(t) THEN n + 1 ELSE Len(t))

\* textToReduce.slice(0, n)
SliceFirst(t, n) == SubSeq(t, 1, IF n < Len(t) THEN n ELSE Len(t))

\* One pass of the for loop of createChunksWithOverlap, on the pair
\* <<chunks, currentChunk>>.
AddSentence(st, sentence, chunkSize, overlapSize) ==
    LET cks    == st[1]
        cur    == st[2]
        over   == estimateTokenCount(cur \o sentence) > chunkSize
        pushed == IF over /\ cur # <<>> THEN Append(cks, cur) ELSE cks
        seed   == IF ~over THEN cur
                  ELSE IF overlapSize * 4 > 0 /\ Len(cur) > overlapSize * 4
                       THEN SliceLast(cur, overlapSize * 4)
                       ELSE <<>>
    IN  <<pushed, seed \o (IF seed # <<>> THEN <<" ">> ELSE <<>>) \o sentence>>

RECURSIVE ChunkLoop(_, _, _, _, _)
ChunkLoop(sentences, i, st, chunkSize, overlapSize) ==
    IF i > Len(sentences) THEN st
    ELSE ChunkLoop(sentences, i + 1,
                   AddSentence(st, sentences[i], chunkSize, overlapSize),
                   chunkSize, overlapSize)

createChunksWithoutLast(t, chunkSize, overlapSize) ==
    ChunkLoop(SplitSentences(t), 1, <<<<>>, <<>>>>, chunkSize, overlapSize)[1]

createChunksWithOverlap(t, chunkSize, overlapSize) ==
    LET st == ChunkLoop(SplitSentences(t), 1, <<<<>>, <<>>>>, chunkSize, overlapSize)
    IN  IF st[2] # <<>> THEN Append(st[1], st[2]) ELSE st[1]

\* chunkSummaries.join('\n\n')
RECURSIVE JoinSummaries(_)
JoinSummaries(ss) ==
    IF Len(ss) = 0 THEN <<>>
    ELSE IF Len(ss) = 1 THEN ss[1]
    ELSE ss[1] \o <<"\n", "\n">> \o JoinSummaries(Tail(ss))

\* What summarizeChunk returns when the call fails: a text that starts with
\* 'Error summarizing:'.
ErrorSummary == <<"Error summarizing:">>

\* summary.startsWith('Error summarizing:')
StartsWithError(t) == t # <<>> /\ t[1] = "Error summarizing:"

\* The texts the backend returns as content: one short, one longer than the
\* context limit of the model.
SummaryTexts == { <<"a">>, <<"a", "a", "a", "a", ".">> }

\* The values summarizeChunk returns.  A call that throws inside the try block
\* gives the error text.  A call that resolves gives response.content or
\* response.message.content as it is: a string, undefined or null when the
\* response carries no content, or a value of another type (an array of
\* content parts, a number).
summarizeChunk ==
    {[type |-> "string", value |-> t] : t \in SummaryTexts \cup {ErrorSummary}}
        \cup {[type |-> "undefined", value |-> <<>>], [type |-> "object", value |-> <<>>]}

\* fullConfig = { ...DEFAULT_CONFIG, ...config }, with the sizes of the model.
\* systemPrompt is the prompt the callers of the repository pass in config.
Configs ==
    [chunkSize : {1}, overlapSize : {0, 1},
     recursionLimit : 0..MaxRecursionLimit, contextLimitThreshold : {1},
     systemPrompt : {"caller"}]

\* "Summarize the following text concisely, preserving key information:"
DirectPrompt == "concise"

\* "Summarize the key points of this text segment:"
ChunkPrompt == "segment"

\* "Synthesize the following summaries into a single, coherent summary:"
FinalPrompt == "synthesize"

Fits(t, cfg) == estimateTokenCount(t) <= cfg.contextLimitThreshold

\* currentDepth >= config.recursionLimit
TooDeep(depth, cfg) == depth >= cfg.recursionLimit

SInit ==
    /\ text \in Texts
    /\ config \in Configs
    /\ spc = "start"
    /\ textToReduce = <<>> /\ sumChunks = <<>> /\ chunkIdx = 0
    /\ chunkSummaries = <<>> /\ currentDepth = 0 /\ levels = 0 /\ summary = <<>>
    /\ callPrompt = "none" /\ nCalls = 0
    /\ outcomes = <<>> /\ lastRound = <<>> /\ combinedText = <<>>
    /\ PIdle /\ AIdle /\ RIdle /\ FIdle

\* summarizeText up to its first backend call.
SumStart ==
    /\ spc = "start"
    /\ IF text = <<>> \/ IsBlank(text)
       THEN /\ spc' = "raised"
            /\ UNCHANGED <<textToReduce, sumChunks, chunkIdx, levels, callPrompt,
                           nCalls>>
       ELSE IF Fits(text, config)
       THEN /\ spc' = "direct"
            /\ textToReduce' = text
            /\ levels' = 1
            /\ callPrompt' = DirectPrompt
            /\ nCalls' = 1
            /\ UNCHANGED <<sumChunks, chunkIdx>>
       ELSE /\ spc' = "map"
            /\ sumChunks' = createChunksWithOverlap(text, config.chunkSize,
                                                    config.overlapSize)
            /\ chunkIdx' = 1
            /\ levels' = 1
            /\ callPrompt' = ChunkPrompt
            /\ nCalls' = 1
            /\ UNCHANGED textToReduce
    /\ UNCHANGED <<text, config, chunkSummaries, currentDepth, summary, outcomes,
                   lastRound, combinedText>>
    /\ UNCHANGED <<pvars, avars, rvars, fvars>>

\* A failure of the direct or final call raised to the caller.
SumFinalReturnRaises ==
    /\ spc \in {"direct", "final"}
    /\ \E r \in summarizeChunk :
          /\ summary' = r
          /\ outcomes' = Append(outcomes, r)
          /\ spc' = IF r.type = "string" /\ StartsWithError(r.value) THEN "raised"
                    ELSE IF spc = "direct" THEN "done" ELSE "reduced"
    /\ UNCHANGED <<text, config, textToReduce, sumChunks, chunkIdx, chunkSummaries,
                   currentDepth, levels, callPrompt, nCalls, lastRound, combinedText>>
    /\ UNCHANGED <<pvars, avars, rvars, fvars>>

\* return await summarizeChunk(...): the direct call of summarizeText returns
\* and its value is the result of summarizeText, or the final call of
\* recursiveReduce (base case or truncation) returns and its value is the
\* finalSummary of summarizeText.
SumFinalReturn ==
    /\ spc \in {"direct", "final"}
    /\ \E r \in summarizeChunk :
          /\ summary' = r
          /\ outcomes' = Append(outcomes, r)
    /\ spc' = IF spc = "direct" THEN "done" ELSE "reduced"
    /\ UNCHANGED <<text, config, textToReduce, sumChunks, chunkIdx, chunkSummaries,
                   currentDepth, levels, callPrompt, nCalls, lastRound, combinedText>>
    /\ UNCHANGED <<pvars, avars, rvars, fvars>>

\* const outputTokens = estimateTokenCount(finalSummary); return finalSummary.
\* text.length throws a TypeError for undefined and null and is a number or
\* undefined for every other value.
SumOutputStats ==
    /\ spc = "reduced"
    /\ spc' = IF summary.type = "undefined" THEN "raised" ELSE "done"
    /\ UNCHANGED <<text, config, textToReduce, sumChunks, chunkIdx, chunkSummaries,
                   currentDepth, levels, summary, callPrompt, nCalls, outcomes,
                   lastRound, combinedText>>
    /\ UNCHANGED <<pvars, avars, rvars, fvars>>

\* recursiveReduce(combined, ..., depth) up to its first backend call.
EnterReduce(combined, depth) ==
    IF Fits(combined, config)
    THEN /\ spc' = "final"
         /\ textToReduce' = combined
         /\ callPrompt' = FinalPrompt
         /\ UNCHANGED <<sumChunks, chunkIdx, chunkSummaries>>
    ELSE IF TooDeep(depth, config)
    THEN /\ spc' = "final"
         /\ textToReduce' = SliceFirst(combined, config.contextLimitThreshold * 4)
         /\ callPrompt' = FinalPrompt
         /\ UNCHANGED <<sumChunks, chunkIdx, chunkSummaries>>
    ELSE /\ spc' = "rmap"
         /\ callPrompt' = ChunkPrompt
         /\ sumChunks' = createChunksWithOverlap(combined, config.chunkSize,
                                                 config.overlapSize)
         /\ chunkIdx' = 1
         /\ chunkSummaries' = <<>>
         /\ UNCHANGED textToReduce

\* A call of a map loop returns; after the last one the summaries are joined
\* and handed to recursiveReduce: at depth 0 from summarizeText, one deeper
\* from recursiveReduce.  summary.startsWith(...) throws a TypeError for a
\* value that is not a string, which ends summarizeText.
SumMapReturn ==
    /\ spc \in {"map", "rmap"}
    /\ \E r \in summarizeChunk :
         LET sums == IF StartsWithError(r.value) THEN chunkSummaries
                     ELSE Append(chunkSummaries, r.value)
             next == IF spc = "map" THEN 0 ELSE currentDepth + 1
         IN  IF r.type # "string"
             THEN /\ spc' = "raised"
                  /\ outcomes' = Append(outcomes, r)
                  /\ UNCHANGED <<textToReduce, sumChunks, chunkIdx, chunkSummaries,
                                 currentDepth, levels, callPrompt, nCalls, lastRound,
                                 combinedText>>
             ELSE IF chunkIdx < Len(sumChunks)
             THEN /\ chunkIdx' = chunkIdx + 1
                  /\ chunkSummaries' = sums
                  /\ nCalls' = nCalls + 1
                  /\ outcomes' = Append(outcomes, r)
                  /\ UNCHANGED <<spc, textToReduce, sumChunks, currentDepth, levels,
                                 callPrompt, lastRound, combinedText>>
             ELSE IF Len(sums) = 0
             THEN /\ spc' = "raised"
                  /\ chunkSummaries' = sums
                  /\ outcomes' = Append(outcomes, r)
                  /\ UNCHANGED <<textToReduce, sumChunks, chunkIdx, currentDepth,
                                 levels, callPrompt, nCalls, lastRound, combinedText>>
             ELSE /\ EnterReduce(JoinSummaries(sums), next)
                  /\ currentDepth' = next
                  /\ levels' = levels + 1
                  /\ nCalls' = nCalls + 1
                  /\ outcomes' = <<>>
                  /\ lastRound' = Append(outcomes, r)
                  /\ combinedText' = JoinSummaries(sums)
    /\ UNCHANGED <<text, config, summary>>
    /\ UNCHANGED <<pvars, avars, rvars, fvars>>

SNext == SumStart \/ SumMapReturn \/ SumFinalReturn \/ SumOutputStats

\* Every backend call returns.
SpecSummarize == SInit /\ [][SNext]_vars /\ WF_vars(SNext)

Terminated == spc \in {"done", "raised"}

\* C10 (as claimed): summarizeText terminates, and it starts at most
\* recursionLimit + 1 rounds of backend calls.
C10_WithinLimitPlusOne ==
    /\ [](spc # "off" => levels <= config.recursionLimit + 1)
    /\ <>Terminated

\* C11: when the text fits the context limit, summarizeText makes exactly one
\* backend call, with the prompt the caller supplied and the text, and returns
\* the outcome of that call.
C11_DirectUsesCallerPrompt ==
    (spc \in {"direct", "done"} /\ Fits(text, config))
        => /\ nCalls = 1
           /\ textToReduce = text
           /\ callPrompt = config.systemPrompt

(***************************************************************************)
(* createChunksWithOverlap called on its own, for every text and sizes of  *)
(* the model.                                                              *)
(***************************************************************************)

ChunkInit ==
    /\ fn = "createChunksWithOverlap" /\ fpc = "called"
    /\ args \in [text : UNION { [1..k -> Chars] : k \in 0..MaxChunkTextLen },
                 chunkSize : 1..MaxChunkSize, overlapSize : {0, 1}]
    /\ result = <<>>
    /\ PIdle /\ AIdle /\ RIdle /\ SIdle

ChunkReturn ==
    /\ fn = "createChunksWithOverlap" /\ fpc = "called"
    /\ result' = createChunksWithOverlap(args.text, args.chunkSize, args.overlapSize)
    /\ fpc' = "returned"
    /\ UNCHANGED <<fn, args>>
    /\ UNCHANGED <<pvars, avars, rvars, svars>>

SpecChunk == ChunkInit /\ [][ChunkReturn]_vars

Chunked == fn = "createChunksWithOverlap" /\ fpc = "returned"

\* C12: every segment createChunksWithOverlap returns has an estimated token
\* count of at most chunkSize.
C12_SegmentsWithinChunkSize ==
    Chunked => \A i \in 1..Len(result) :
                  estimateTokenCount(result[i]) <= args.chunkSize

\* The first n characters of b are the last n characters of a.
SharesRegion(a, b, n) ==
    /\ n <= Len(a) /\ n <= Len(b)
    /\ \A j \in 1..n : b[j] = a[Len(a) - n + j]

\* C13 (as claimed): for overlapSize > 0, every segment after the first begins
\* with a non-empty suffix, of at most overlapSize * 4 characters, of the
\* segment before it.
C13_ConsecutiveSegmentsOverlap ==
    (Chunked /\ args.overlapSize > 0) =>
        \A i \in 1..(Len(result) - 1) :
            \E n \in 1..(args.overlapSize * 4) :
                SharesRegion(result[i], result[i + 1], n)

\* A value of summarizeChunk that a map loop keeps.
NotError(o) == o.type = "string" /\ ~StartsWithError(o.value)

\* The texts of the values a map loop keeps, in order.
Survivors(os) ==
    LET kept == SelectSeq(os, NotError)
    IN  [k \in 1..Len(kept) |-> kept[k].value]

\* C14 (as claimed): in a map step a chunk whose summarization errors is
\* dropped without failing the call: no call of a map loop ends
\* summarizeText with an error; the summaries of the other chunks are kept in
\* chunk order and their join is the input of the next step (the final call,
\* or the next chunking).
C14_FailedChunksDropped ==
    /\ [](spc \in {"map", "rmap"} => chunkSummaries = Survivors(outcomes))
    /\ []((spc # "off" /\ lastRound # <<>>) =>
             combinedText = JoinSummaries(Survivors(lastRound)))
    /\ [](spc = "final" =>
             textToReduce \in {combinedText,
                               SliceFirst(combinedText, config.contextLimitThreshold * 4)})
    /\ [](spc = "rmap" =>
             sumChunks = createChunksWithOverlap(combinedText, config.chunkSize,
                                                 config.overlapSize))
    /\ [][(spc \in {"map", "rmap"}) => (spc' # "raised")]_vars

\* recursiveReduce was entered with a text over the context limit at a depth
\* of at least recursionLimit.
OverLimitAtMaxDepth ==
    /\ spc \notin {"off", "start", "direct"}
    /\ lastRound # <<>>
    /\ ~Fits(combinedText, config)
    /\ currentDepth >= config.recursionLimit

\* C15: when the text still exceeds contextLimitThreshold at depth >=
\* recursionLimit, recursiveReduce sends its first contextLimitThreshold * 4
\* characters to one direct backend call, whose outcome it returns, and does
\* not chunk or recurse; the truncated text is within the context limit.
C15_TruncatesAtMaxDepth ==
    /\ [](OverLimitAtMaxDepth =>
            /\ spc \in {"final", "reduced", "done", "raised"}
            /\ Len(textToReduce) = config.contextLimitThreshold * 4
            /\ \A j \in 1..Len(textToReduce) : textToReduce[j] = combinedText[j]
            /\ estimateTokenCount(textToReduce) <= config.contextLimitThreshold
            /\ callPrompt = FinalPrompt)
    /\ [][(OverLimitAtMaxDepth /\ spc = "final") =>
            (/\ spc' = "reduced" /\ nCalls' = nCalls /\ levels' = levels
             /\ summary' = outcomes'[Len(outcomes')])]_vars

C15_Witness ==
    /\ OverLimitAtMaxDepth
    /\ spc = "done"
    /\ Len(textToReduce) < Len(combinedText)
    /\ summary.type = "string" /\ summary.value \in SummaryTexts

(***************************************************************************)
(* The response handling of invokeWithRetry on its own: what one attempt   *)
(* makes of a response the backend call resolved with.                     *)
(***************************************************************************)

GatewayInit ==
    /\ fn = "invokeWithRetry.try" /\ fpc = "called"
    /\ args \in [provider : {"vertex", "ollama"},
                 response : {r \in Responses : r.t # "throw"},
                 categoryName : {CategoryNames[i] : i \in DOMAIN CategoryNames}]
    /\ result = <<>>
    /\ PIdle /\ AIdle /\ RIdle /\ SIdle

GatewayReturn ==
    /\ fn = "invokeWithRetry.try" /\ fpc = "called"
    /\ result' = ProviderBranch(args.provider, args.response, args.categoryName)
    /\ fpc' = "returned"
    /\ UNCHANGED <<fn, args>>
    /\ UNCHANGED <<pvars, avars, rvars, svars>>

SpecGateway == GatewayInit /\ [][GatewayReturn]_vars

\* C16: the response handling returns the text of a response with a direct
\* content field, a nested content field or a bare string, returns an
\* 'unexpected format' sentinel for any other response, and never throws.
C16_SentinelNeverThrows ==
    (fn = "invokeWithRetry.try" /\ fpc = "returned") =>
        /\ ~result.throws
        /\ ShapeOf(args.provider, args.response) = "ok" =>
              result.content.kind = "text"
        /\ (args.response.t = "null"
             \/ ShapeOf(args.provider, args.response) = "malformed") =>
              result.content.kind \in {"sentinelOllama", "sentinelVertex"}

(***************************************************************************)
(* saveChunks and generateDependencyGraph: the chunks of runTreeSitter are *)
(* written to files named after their sanitized names, and the graph is    *)
(* built from the files.  A name is a sequence of characters; the code of  *)
(* a chunk is the sequence of its identifier tokens.                       *)
(***************************************************************************)

\* [a-zA-Z0-9_]
ValidChars ==
    {"a", "b", "c", "d", "e", "f", "g", "h", "i", "j", "k", "l", "m", "n", "o", "p",
     "q", "r", "s", "t", "u", "v", "w", "x", "y", "z",
     "A", "B", "C", "D", "E", "F", "G", "H", "I", "J", "K", "L", "M", "N", "O", "P",
     "Q", "R", "S", "T", "U", "V", "W", "X", "Y", "Z",
     "0", "1", "2", "3", "4", "5", "6", "7", "8", "9", "_"}

\* name.replace(/[^a-zA-Z0-9_]/g, '_')
ReplaceInvalid(name) ==
    [i \in 1..Len(name) |-> IF name[i] \in ValidChars THEN name[i] ELSE "_"]

\* .replace(/^_+|_+$/g, '')
RECURSIVE StripLeading(_)
StripLeading(name) ==
    IF name # <<>> /\ Head(name) = "_" THEN StripLeading(Tail(name)) ELSE name

RECURSIVE StripTrailing(_)
StripTrailing(name) ==
    IF name # <<>> /\ name[Len(name)] = "_"
    THEN StripTrailing(SubSeq(name, 1, Len(name) - 1))
    ELSE name

Unnamed == <<"u", "n", "n", "a", "m", "e", "d">>

sanitizeFilename(name) ==
    LET stripped == StripTrailing(StripLeading(ReplaceInvalid(name)))
    IN  IF stripped = <<>> THEN Unnamed ELSE stripped

\* `${outputDir}/${type}s/${sanitizedName}.js`, as directory and base name.
createFilePath(type, name) ==
    [dir |-> <<type, "s">>, base |-> sanitizeFilename(name), ext |-> ".js"]

\* A chunk of a named function or class declaration whose body holds at most
\* one identifier.
UnitChunks ==
    [type : {"function", "class"},
     name : { <<"f">>, <<"g">>, <<"h">>, <<"$", "f">> },
     body : { <<>>, << <<"f">> >>, << <<"x">> >> }]

\* The identifier nodes of the code of a chunk: the declared name, then the
\* identifiers of the body.
IdentifiersOf(c) == <<c.name>> \o c.body

\* saveChunks with a writeFile that leaves an existing file alone.
RECURSIVE WriteChunksKeepFirst(_, _, _)
WriteChunksKeepFirst(cs, i, files) ==
    IF i > Len(cs) THEN files
    ELSE LET path == createFilePath(cs[i].type, cs[i].name)
             file == [path |-> path, code |-> IdentifiersOf(cs[i])]
         IN  WriteChunksKeepFirst(cs, i + 1,
                 IF \E k \in 1..Len(files) : files[k].path = path
                 THEN files ELSE Append(files, file))

\* saveChunks: one writeFile per chunk, in order; a path written twice keeps
\* the later content.  The files on disk, here in order of creation.
RECURSIVE WriteChunks(_, _, _)
WriteChunks(cs, i, files) ==
    IF i > Len(cs) THEN files
    ELSE LET path == createFilePath(cs[i].type, cs[i].name)
             file == [path |-> path, code |-> IdentifiersOf(cs[i])]
             at   == {k \in 1..Len(files) : files[k].path = path}
         IN  WriteChunks(cs, i + 1,
                 IF at = {} THEN Append(files, file)
                 ELSE [k \in 1..Len(files) |-> IF k \in at THEN file ELSE files[k]])

saveChunks(cs) == WriteChunks(cs, 1, <<>>)

\* sourcemap.chunks: one entry per chunk pushed by processNode.
SourcemapChunks(cs) ==
    [i \in 1..Len(cs) |->
        [id |-> i - 1, name |-> cs[i].name, type |-> cs[i].type,
         file |-> createFilePath(cs[i].type, cs[i].name)]]

AnyIdentifier(files, id) == TRUE

\* files.some((f) => path.basename(f, '.js') === id)
KnownFile(files, id) == \E k \in 1..Len(files) : files[k].path.base = id

\* findIdentifiers on the tree of one file: an edge per identifier that is
\* the base name of a file.
RECURSIVE findIdentifiers(_, _, _, _)
findIdentifiers(files, name, code, i) ==
    IF i > Len(code) THEN <<>>
    ELSE (IF KnownFile(files, code[i])
          THEN <<[from |-> name, to |-> code[i]]>>
          ELSE <<>>) \o findIdentifiers(files, name, code, i + 1)

RECURSIVE GraphLoop(_, _, _)
GraphLoop(files, k, graph) ==
    IF k > Len(files) THEN graph
    ELSE GraphLoop(files, k + 1,
            [nodes |-> Append(graph.nodes, [id |-> files[k].path.base, file |-> files[k].path]),
             edges |-> graph.edges
                       \o findIdentifiers(files, files[k].path.base, files[k].code, 1)])

\* walkDir(inputDir): the files in the order in which fs.readdir returns the
\* entries, first of inputDir (the directories of the kinds) and then of
\* each directory.  readdir gives its entries in no particular order, so
\* every order that keeps the files of a directory together is a listing.
walkDir(onDisk) ==
    LET n == Len(onDisk)
        Orders == {p \in [1..n -> 1..n] :
                      /\ \A i \in 1..n, j \in 1..n : i # j => p[i] # p[j]
                      /\ \A i \in 1..n, j \in 1..n, k \in 1..n :
                            (i < j /\ j < k
                             /\ onDisk[p[i]].path.dir = onDisk[p[k]].path.dir)
                            => onDisk[p[j]].path.dir = onDisk[p[i]].path.dir}
    IN  {[k \in 1..n |-> onDisk[p[k]]] : p \in Orders}

generateDependencyGraph(files) == GraphLoop(files, 1, [nodes |-> <<>>, edges |-> <<>>])

DepInit ==
    /\ fn = "generateDependencyGraph" /\ fpc = "called"
    /\ args \in UNION { [1..n -> UnitChunks] : n \in 1..MaxUnits }
    /\ result = <<>>
    /\ PIdle /\ AIdle /\ RIdle /\ SIdle

\* runTreeSitter saves the chunks.
DepSave ==
    /\ fn = "generateDependencyGraph" /\ fpc = "called"
    /\ result' = [files |-> saveChunks(args), sourcemap |-> SourcemapChunks(args),
                  graph |-> [nodes |-> <<>>, edges |-> <<>>]]
    /\ fpc' = "saved"
    /\ UNCHANGED <<fn, args>>
    /\ UNCHANGED <<pvars, avars, rvars, svars>>

\* generateDependencyGraph lists the files with walkDir, reads them in that
\* order and writes the graph.
DepGraph ==
    /\ fn = "generateDependencyGraph" /\ fpc = "saved"
    /\ \E listed \in walkDir(result.files) :
          result' = [result EXCEPT !.graph = generateDependencyGraph(listed)]
    /\ fpc' = "returned"
    /\ UNCHANGED <<fn, args>>
    /\ UNCHANGED <<pvars, avars, rvars, svars>>

DepNext == DepSave \/ DepGraph

SpecDeps == DepInit /\ [][DepNext]_vars

Graphed == fn = "generateDependencyGraph" /\ fpc = "returned"

\* The number of elements of a sequence that satisfy a test.
Count(seq, Test(_)) == Cardinality({k \in 1..Len(seq) : Test(seq[k])})

\* C17: for units A and B, the graph holds as many edges (A, B) as the code of
\* A holds identifier occurrences equal to the name of B, self-references
\* included.
C17_EdgePerOccurrence ==
    Graphed =>
        \A a \in 1..Len(args), b \in 1..Len(args) :
            LET IsEdge(e) == e.from = args[a].name /\ e.to = args[b].name
                IsRef(id) == id = args[b].name
            IN  Count(result.graph.edges, IsEdge) = Count(IdentifiersOf(args[a]), IsRef)

\* Three function declarations with distinct names that are file names as
\* they stand, none of whose bodies names one of the three.
ThreeIndependentFunctions ==
    /\ Len(args) = 3
    /\ \A a \in 1..3 : args[a].type = "function"
    /\ \A a \in 1..3 : sanitizeFilename(args[a].name) = args[a].name
    /\ \A a \in 1..3, b \in 1..3 : a # b => args[a].name # args[b].name
    /\ \A a \in 1..3, b \in 1..3 :
            \A k \in 1..Len(args[a].body) : args[a].body[k] # args[b].name

\* C18: for three top-level functions that do not reference each other or
\* themselves, there are exactly three function units and the dependency
\* graph built from them has no edge.
C18_ThreeFunctionsNoEdges ==
    (Graphed /\ ThreeIndependentFunctions) =>
        /\ Len(result.files) = 3
        /\ Len(result.graph.nodes) = 3
        /\ Len(result.graph.edges) = 0

NodeIds == { result.graph.nodes[k].id : k \in 1..Len(result.graph.nodes) }

\* C19: both endpoints of every edge of the dependency graph are ids of nodes
\* of the graph.
C19_EdgeEndpointsAreNodes ==
    Graphed =>
        \A k \in 1..Len(result.graph.edges) :
            /\ result.graph.edges[k].from \in NodeIds
            /\ result.graph.edges[k].to \in NodeIds

\* A graph with an edge between two nodes, built from chunks one of which
\* also uses an identifier that names no file.
C19_Witness ==
    /\ Graphed
    /\ \E k \in 1..Len(result.graph.edges) :
          result.graph.edges[k].from # result.graph.edges[k].to
    /\ \E a \in 1..Len(args) : args[a].body = << <<"x">> >>

(***************************************************************************)
(* The naming of a chunk in processNode.  A node is given by its type and  *)
(* its children; a child by its type, its text and, for a declarator, the  *)
(* text of its first identifier child ("" when it has none).  A name is a  *)
(* sequence of pieces of text.                                             *)
(***************************************************************************)

Child(type, txt) == [type |-> type, text |-> txt, ident |-> ""]

Declarator(id) == [type |-> "variable_declarator", text |-> "", ident |-> id]

IdentTexts == {"f", "g", "A", "m"}

\* Nodes as the parser builds them: a function or class declaration holds its
\* name as an identifier child, a method holds it as a property_identifier.
FunctionNodes ==
    { [type |-> "function_declaration",
       children |-> pre \o <<Child("function", ""), Child("identifier", t),
                             Child("formal_parameters", ""), Child("statement_block", "")>>] :
      pre \in {<<>>, <<Child("async", "")>>}, t \in IdentTexts }

ClassNodes ==
    { [type |-> "class_declaration",
       children |-> <<Child("class", ""), Child("identifier", t)>> \o her
                    \o <<Child("class_body", "")>>] :
      her \in {<<>>, <<Child("class_heritage", "")>>}, t \in IdentTexts }

MethodNodes ==
    { [type |-> "method_definition",
       children |-> pre \o <<Child("property_identifier", t),
                             Child("formal_parameters", ""), Child("statement_block", "")>>] :
      pre \in {<<>>, <<Child("static", "")>>, <<Child("async", "")>>}, t \in IdentTexts }

LexicalNodes ==
    { [type |-> "lexical_declaration",
       children |-> <<Child("const", "")>> \o ds] :
      ds \in { <<Declarator(a)>> : a \in IdentTexts }
              \cup { <<Declarator(a), Child(",", ""), Declarator(b)>> :
                     a \in IdentTexts, b \in IdentTexts } }

ArrowNode ==
    [type |-> "arrow_function",
     children |-> <<Child("formal_parameters", ""), Child("=>", ""),
                    Child("statement_block", "")>>]

\* node.children.find(child => child.type === type): its index, 0 if none.
FindChild(children, type) ==
    LET at == {k \in 1..Len(children) : children[k].type = type}
    IN  IF at = {} THEN 0 ELSE CHOOSE k \in at : \A j \in at : k <= j

\* The names of the declarators that have one, joined with '_'.
RECURSIVE JoinDeclarators(_, _)
JoinDeclarators(children, k) ==
    IF k > Len(children) THEN <<>>
    ELSE LET rest == JoinDeclarators(children, k + 1)
         IN  IF children[k].type = "variable_declarator" /\ children[k].ident # ""
             THEN <<children[k].ident>>
                  \o (IF rest # <<>> THEN <<"_">> ELSE <<>>) \o rest
             ELSE rest

Anonymous == <<"anonymous">>

\* The name processNode gives the chunk of a node.
ChunkName(node, parentName, nChunks) ==
    LET type   == nodeTypes(node.type)
        k      == FindChild(node.children, "identifier")
        found  == IF /\ Len(node.children) > 0
                     /\ node.type \in {"function_declaration", "method_definition",
                                        "class_declaration"}
                     /\ k > 0
                  THEN <<node.children[k].text>> ELSE <<>>
        joined == JoinDeclarators(node.children, 1)
        name   == IF type \in {"variable", "constant"}
                  THEN (IF joined # <<>> THEN joined ELSE Anonymous)
                  ELSE IF type \in {"export", "import"}
                  THEN <<type, "_", IF Len(node.children) >= 2
                                    THEN node.children[2].type ELSE "default">>
                  ELSE IF type = "arrow_function"
                  THEN (IF parentName # <<>> THEN parentName \o <<"_arrow">>
                        ELSE <<"anonymous_arrow">>)
                  ELSE found
    IN  IF name # <<>> THEN name ELSE <<"chunk_", ToString(nChunks)>>

NamingInit ==
    /\ fn = "processNode" /\ fpc = "called"
    /\ args \in [node : FunctionNodes \cup ClassNodes \cup MethodNodes
                        \cup LexicalNodes \cup {ArrowNode},
                 parentName : {<<>>, <<"f">>},
                 nChunks : 0..MaxChunksBefore]
    /\ result = <<>>
    /\ PIdle /\ AIdle /\ RIdle /\ SIdle

NamingReturn ==
    /\ fn = "processNode" /\ fpc = "called"
    /\ result' = ChunkName(args.node, args.parentName, args.nChunks)
    /\ fpc' = "returned"
    /\ UNCHANGED <<fn, args>>
    /\ UNCHANGED <<pvars, avars, rvars, svars>>

SpecNaming == NamingInit /\ [][NamingReturn]_vars

\* C20: the chunk of a function, method or class node is named after the
\* first identifier child of the node, and 'anonymous' when the node has no
\* identifier child.
C20_NamedAfterIdentifier ==
    (/\ fn = "processNode" /\ fpc = "returned"
     /\ nodeTypes(args.node.type) \in {"function", "method", "class"}) =>
        LET k == FindChild(args.node.children, "identifier")
        IN  result = IF k > 0 THEN <<args.node.children[k].text>> ELSE Anonymous

(***************************************************************************)
(* createFilePath as a function of its own: the path of a chunk of a type  *)
(* and a name, for every name of up to MaxNameLen characters drawn from a  *)
(* letter, the underscore and two characters outside [a-zA-Z0-9_].         *)
(***************************************************************************)

NameChars == {"a", "_", "-", "("}

PathInit ==
    /\ fn = "createFilePath" /\ fpc = "called"
    /\ args \in [type : {"function", "class"},
                 name : UNION { [1..k -> NameChars] : k \in 0..MaxNameLen }]
    /\ result = <<>>
    /\ PIdle /\ AIdle /\ RIdle /\ SIdle

PathReturn ==
    /\ fn = "createFilePath" /\ fpc = "called"
    /\ result' = createFilePath(args.type, args.name)
    /\ fpc' = "returned"
    /\ UNCHANGED <<fn, args>>
    /\ UNCHANGED <<pvars, avars, rvars, svars>>

SpecPath == PathInit /\ [][PathReturn]_vars

\* A name with every run of underscores reduced to one underscore.
RECURSIVE CollapseUnderscores(_)
CollapseUnderscores(name) ==
    IF Len(name) < 2 THEN name
    ELSE IF name[1] = "_" /\ name[2] = "_" THEN CollapseUnderscores(Tail(name))
    ELSE <<name[1]>> \o CollapseUnderscores(Tail(name))

\* C21: the path of a Unit is kind + 's/' + sanitize(name) + '.js', where
\* sanitize replaces every character outside [A-Za-z0-9_] with '_', strips
\* leading and trailing underscores, collapses repeated underscores into one
\* and yields 'unnamed' when nothing is left.
C21_PathFromSanitizedName ==
    (fn = "createFilePath" /\ fpc = "returned") =>
        LET replaced == [i \in 1..Len(args.name) |->
                            IF args.name[i] \in ValidChars THEN args.name[i] ELSE "_"]
            clean    == CollapseUnderscores(StripTrailing(StripLeading(replaced)))
        IN  /\ result.dir = <<args.type, "s">>
            /\ result.ext = ".js"
            /\ result.base = IF clean = <<>> THEN Unnamed ELSE clean

\* C22: sanitizeFilename maps alphanumeric characters followed by a run of
\* invalid characters ('function()') to the alphanumeric prefix and exactly
\* one underscore ('function_'), a name wrapped in underscores ('__test__')
\* to the name without them ('test'), and the empty name to 'unnamed'.
C22_SanitizeExamples ==
    (fn = "createFilePath" /\ fpc = "returned") =>
        LET name  == args.name
            alnum == {i \in 1..Len(name) : name[i] \in ValidChars \ {"_"}}
            under == {i \in 1..Len(name) : name[i] = "_"}
        IN  /\ name = <<>> => result.base = Unnamed
            /\ \A k \in 1..(Len(name) - 1) :
                   (alnum = 1..k /\ under = {})
                       => result.base = SubSeq(name, 1, k) \o <<"_">>
            /\ \A k \in 1..Len(name) : \A j \in k..Len(name) :
                   (alnum = k..j /\ under = (1..Len(name)) \ (k..j) /\ k > 1 /\ j < Len(name))
                       => result.base = SubSeq(name, k, j)

(***************************************************************************)
(* estimateTokenCount as a function of its own, applied to two texts.      *)
(***************************************************************************)

TokensInit ==
    /\ fn = "estimateTokenCount" /\ fpc = "called"
    /\ args \in [a : UNION { [1..k -> {"a", " "}] : k \in 0..MaxTokenTextLen },
                 b : UNION { [1..k -> {"a", " "}] : k \in 0..MaxTokenTextLen }]
    /\ result = <<>>
    /\ PIdle /\ AIdle /\ RIdle /\ SIdle

TokensReturn ==
    /\ fn = "estimateTokenCount" /\ fpc = "called"
    /\ result' = [a |-> estimateTokenCount(args.a), b |-> estimateTokenCount(args.b)]
    /\ fpc' = "returned"
    /\ UNCHANGED <<fn, args>>
    /\ UNCHANGED <<pvars, avars, rvars, svars>>

SpecTokens == TokensInit /\ [][TokensReturn]_vars

\* C23: estimateTokenCount(text) is the least whole number of 4-character
\* tokens that holds the text, ceil(length / 4), and a text that is not
\* longer than another has no larger estimate.
C23_CeilQuarterMonotone ==
    (fn = "estimateTokenCount" /\ fpc = "returned") =>
        /\ 4 * result.a >= Len(args.a) /\ 4 * (result.a - 1) < Len(args.a)
        /\ 4 * result.b >= Len(args.b) /\ 4 * (result.b - 1) < Len(args.b)
        /\ Len(args.a) <= Len(args.b) => result.a <= result.b

C23_Witness ==
    /\ fn = "estimateTokenCount" /\ fpc = "returned"
    /\ Len(args.a) = 1 /\ Len(args.b) = 5
    /\ result.a = 1 /\ result.b = 2

(***************************************************************************)
(* cleanupOldDirectories.  The output directory holds up to MaxDirs run    *)
(* directories, given in readdir order.  A directory with meta was written *)
(* by the pipeline: its metadata.json holds created, inputBaseName and     *)
(* completed, and no timestamp field.  A directory without meta has no     *)
(* metadata.json.  age is the age of the directory in days (the age of its *)
(* metadata's created field, or of its mtime).                             *)
(***************************************************************************)

EpochAgeDays == 20000

RunDirs ==
    {d \in [meta : BOOLEAN, age : {0, 2}, input : {"x", "y"}, completed : BOOLEAN] :
        ~d.meta => (d.input = "x" /\ ~d.completed)}

\* The age in days of the field `created` of a listed directory:
\* new Date(metadata.timestamp || 0) with metadata, stats.mtime without.
CreatedAge(d) == IF d.meta THEN EpochAgeDays ELSE d.age

\* sort((a, b) => b.created - a.created) over indices of dirs: newest first,
\* equal dates in their earlier order.
RECURSIVE SortByCreated(_, _)
SortByCreated(dirs, idx) ==
    IF idx = <<>> THEN <<>>
    ELSE LET rest == SortByCreated(dirs, SubSeq(idx, 1, Len(idx) - 1))
             x    == idx[Len(idx)]
             k    == Cardinality({j \in 1..Len(rest) :
                                    CreatedAge(dirs[rest[j]]) <= CreatedAge(dirs[x])})
         IN  SubSeq(rest, 1, k) \o <<x>> \o SubSeq(rest, k + 1, Len(rest))

listOutputDirectories(dirs) == SortByCreated(dirs, [i \in 1..Len(dirs) |-> i])

\* dir.metadata?.inputBaseName || 'unknown'
InputGroup(d) == IF d.meta THEN d.input ELSE "unknown"

\* The set toKeep of cleanupOldDirectories, as indices of dirs.
ToKeep(dirs, opt) ==
    LET allDirs == listOutputDirectories(dirs)
        First(seq, n) == {seq[j] : j \in 1..(IF n < Len(seq) THEN n ELSE Len(seq))}
        Group(g) == SortByCreated(dirs,
                        SelectSeq(allDirs, LAMBDA i : InputGroup(dirs[i]) = g))
    IN  First(allDirs, opt.keepMin)
        \cup (IF opt.keepMinPerInput > 0
              THEN UNION {First(Group(g), opt.keepMinPerInput) : g \in {"x", "y", "unknown"}}
              ELSE {})
        \cup (IF opt.keepCompleted
              THEN {i \in 1..Len(dirs) : dirs[i].meta /\ dirs[i].completed}
              ELSE {})

\* The value cleanupOldDirectories returns, and the directories that remain.
\* rmFails: every fs.rm rejects.
cleanupOldDirectories(dirs, opt, rmFails) ==
    LET allDirs  == listOutputDirectories(dirs)
        toKeep   == ToKeep(dirs, opt)
        oldDirs  == SelectSeq(allDirs, LAMBDA i : CreatedAge(dirs[i]) > opt.olderThan
                                                  /\ i \notin toKeep)
        keptDirs == SelectSeq(allDirs, LAMBDA i : i \in toKeep)
        removed  == IF rmFails THEN <<>> ELSE oldDirs
    IN  IF opt.dryRun
        THEN [wouldRemove |-> oldDirs, removed |-> <<>>, kept |-> keptDirs,
              remaining |-> 1..Len(dirs)]
        ELSE [wouldRemove |-> <<>>, removed |-> removed, kept |-> keptDirs,
              remaining |-> (1..Len(dirs)) \ {removed[j] : j \in 1..Len(removed)}]

CleanupInit ==
    /\ fn = "cleanupOldDirectories" /\ fpc = "called"
    /\ args \in [dirs : UNION { [1..n -> RunDirs] : n \in 1..MaxDirs },
                 opt : [olderThan : {1}, dryRun : BOOLEAN, keepMin : {0, 1},
                        keepMinPerInput : {0, 1}, keepCompleted : BOOLEAN],
                 rmFails : BOOLEAN]
    /\ result = <<>>
    /\ PIdle /\ AIdle /\ RIdle /\ SIdle

CleanupReturn ==
    /\ fn = "cleanupOldDirectories" /\ fpc = "called"
    /\ result' = cleanupOldDirectories(args.dirs, args.opt, args.rmFails)
    /\ fpc' = "returned"
    /\ UNCHANGED <<fn, args>>
    /\ UNCHANGED <<pvars, avars, rvars, svars>>

SpecCleanup == CleanupInit /\ [][CleanupReturn]_vars

\* C24: a directory is deleted only if dryRun is false, the directory is
\* older than olderThan days and it is outside the retention set: at least
\* keepMin other directories are at least as new, at least keepMinPerInput
\* other directories of its input file are at least as new, and it is not a
\* completed run when keepCompleted is set.  With dryRun nothing is deleted
\* and the directories a real run deletes are reported as wouldRemove.
C24_DeletesOnlyOldUnretained ==
    (fn = "cleanupOldDirectories" /\ fpc = "returned") =>
        LET dirs == args.dirs
            opt  == args.opt
            Deletable(i) ==
                /\ dirs[i].age > opt.olderThan
                /\ Cardinality({j \in DOMAIN dirs \ {i} : dirs[j].age <= dirs[i].age})
                       >= opt.keepMin
                /\ Cardinality({j \in DOMAIN dirs \ {i} :
                                   /\ dirs[j].age <= dirs[i].age
                                   /\ dirs[j].meta = dirs[i].meta
                                   /\ dirs[j].input = dirs[i].input})
                       >= opt.keepMinPerInput
                /\ opt.keepCompleted => ~dirs[i].completed
        IN  /\ \A i \in DOMAIN dirs :
                   i \notin result.remaining => (~opt.dryRun /\ Deletable(i))
            /\ opt.dryRun =>
                   /\ result.remaining = DOMAIN dirs
                   /\ \A j \in 1..Len(result.wouldRemove) :
                          Deletable(result.wouldRemove[j])

\* C25: two Units of the same kind whose names sanitize to the same string
\* are written to one artifact path: after saveChunks there is one artifact
\* at that path and it holds the code of the last Unit with that path, while
\* both Units stay in the Unit list and in the PositionMap with that path.
C25_CollisionKeepsLaterUnit ==
    (fn = "generateDependencyGraph" /\ fpc \in {"saved", "returned"}) =>
        \A i \in 1..Len(args) : \A j \in (i + 1)..Len(args) :
            (/\ args[i].type = args[j].type
             /\ sanitizeFilename(args[i].name) = sanitizeFilename(args[j].name)
             /\ \A k \in (j + 1)..Len(args) :
                    createFilePath(args[k].type, args[k].name)
                        # createFilePath(args[j].type, args[j].name))
            => LET path == createFilePath(args[j].type, args[j].name)
                   at   == {k \in 1..Len(result.files) : result.files[k].path = path}
               IN  /\ Cardinality(at) = 1
                   /\ \A k \in at : result.files[k].code = IdentifiersOf(args[j])
                   /\ Len(result.sourcemap) = Len(args)
                   /\ result.sourcemap[i].name = args[i].name
                   /\ result.sourcemap[j].name = args[j].name
                   /\ result.sourcemap[i].file = path
                   /\ result.sourcemap[j].file = path

C25_Witness ==
    /\ fn = "generateDependencyGraph" /\ fpc = "saved"
    /\ Len(args) = 2
    /\ args[1].type = args[2].type
    /\ args[1].name = <<"f">> /\ args[2].name = <<"$", "f">>
    /\ Len(result.files) = 1
    /\ result.files[1].code = IdentifiersOf(args[2])

(***************************************************************************)
(* The files runPipeline's stages write and the paths it hands to          *)
(* runLLMAnalysis.  A path is the sequence of its components below the     *)
(* parent directory of outputDir.  args.existing are the files of an       *)
(* earlier run that are on disk when the run starts; result.written are    *)
(* the files this run has written.                                         *)
(***************************************************************************)

outputDir == <<"out">>

analysisDir == outputDir \o <<"analysis">>

treeSitterOutputDir == outputDir \o <<"raw", "3_minified_tree_sitter">>

\* path.dirname
Dirname(path) == SubSeq(path, 1, Len(path) - 1)

StagesInit ==
    /\ fn = "runPipeline" /\ fpc = "runTreeSitter"
    /\ args \in [skipLlm : BOOLEAN,
                 existing : SUBSET { outputDir \o <<"sourcemap.json">>,
                                     Dirname(outputDir) \o <<"sourcemap.json">>,
                                     outputDir \o <<"dependency_graph.json">>,
                                     analysisDir \o <<"dependency_graph.json">>,
                                     treeSitterOutputDir \o <<"sourcemap.json">> }]
    /\ result = [written |-> {}, sourcemapFile |-> <<>>, dependencyGraphFile |-> <<>>]
    /\ PIdle /\ AIdle /\ RIdle /\ SIdle

\* runTreeSitter(webcrackCode, treeSitterOutputDir): saveChunks writes
\* sourcemap.json into its outputDir parameter, and a copy goes to the
\* directory above it.
StagesTreeSitter ==
    /\ fn = "runPipeline" /\ fpc = "runTreeSitter"
    /\ result' = [result EXCEPT !.written =
                      @ \cup { treeSitterOutputDir \o <<"sourcemap.json">>,
                               Dirname(treeSitterOutputDir) \o <<"sourcemap.json">> }]
    /\ fpc' = "generateDependencyGraph"
    /\ UNCHANGED <<fn, args>>
    /\ UNCHANGED <<pvars, avars, rvars, svars>>

\* addJSDocComments, then generateDependencyGraph(treeSitterOutputDir,
\* path.join(analysisDir, 'dependency_graph.json')).
StagesDependencyGraph ==
    /\ fn = "runPipeline" /\ fpc = "generateDependencyGraph"
    /\ result' = [result EXCEPT !.written =
                      @ \cup { analysisDir \o <<"dependency_graph.json">> }]
    /\ fpc' = "paths"
    /\ UNCHANGED <<fn, args>>
    /\ UNCHANGED <<pvars, avars, rvars, svars>>

\* The paths of the sourcemap and of the dependency graph are chosen, and
\* runLLMAnalysis is called with them unless skipLlm is set.
StagesAnalysis ==
    /\ fn = "runPipeline" /\ fpc = "paths"
    /\ result' = [result EXCEPT
           !.sourcemapFile =
               IF outputDir \o <<"sourcemap.json">> \in args.existing \cup result.written
               THEN outputDir \o <<"sourcemap.json">>
               ELSE Dirname(outputDir) \o <<"sourcemap.json">>,
           !.dependencyGraphFile = outputDir \o <<"dependency_graph.json">>]
    /\ fpc' = IF args.skipLlm THEN "skipped" ELSE "runLLMAnalysis"
    /\ UNCHANGED <<fn, args>>
    /\ UNCHANGED <<pvars, avars, rvars, svars>>

SpecStages ==
    StagesInit /\ [][StagesTreeSitter \/ StagesDependencyGraph \/ StagesAnalysis]_vars

\* C26: every path runPipeline passes to runLLMAnalysis for reading, the
\* sourcemap file and the dependency graph file, is a path that runTreeSitter
\* or generateDependencyGraph has written before the analysis stage starts.
C26_AnalysisReadsWhatWasWritten ==
    (fn = "runPipeline" /\ fpc = "runLLMAnalysis") =>
        /\ result.sourcemapFile \in result.written
        /\ result.dependencyGraphFile \in result.written

(***************************************************************************)
(* The sampling of a category prompt.  typeChunks gives, for each chunk    *)
(* type, how many chunks of the type there are; chunk k of a type is the   *)
(* k-th discovered.  The stored file of chunk k of any type cannot be read *)
(* when k is in unreadable.                                                *)
(***************************************************************************)

SampleLimitFive(category) == 5

\* functionTypes, dataTypes, moduleTypes
SampleTypes(category) ==
    CASE category = "Core Functionality" -> <<"function", "method", "arrow_function">>
      [] category = "Data Structures"    -> <<"class", "variable", "constant">>
      [] category = "Module System"      -> <<"import", "export">>

\* typeChunks[type].slice(0, n)
SampleLimit(category) ==
    CASE category = "Core Functionality" -> 3
      [] category = "Data Structures"    -> 2
      [] category = "Module System"      -> 5

\* The samples pushed by the loops of a category's prompt function.
RECURSIVE CategorySamples(_, _, _, _)
CategorySamples(types, limit, typeChunks, unreadable) ==
    IF types = <<>> THEN <<>>
    ELSE LET type    == Head(types)
             n       == typeChunks[type]
             samples == [k \in 1..(IF n < limit THEN n ELSE limit) |->
                            [type |-> type, chunk |-> k]]
         IN  SelectSeq(samples, LAMBDA c : c.chunk \notin unreadable)
             \o CategorySamples(Tail(types), limit, typeChunks, unreadable)

PromptInit ==
    /\ fn = "prompt" /\ fpc = "called"
    /\ \E category \in {"Core Functionality", "Data Structures", "Module System"} :
          args \in [category : {category},
                    typeChunks : [{SampleTypes(category)[k] :
                                      k \in 1..Len(SampleTypes(category))}
                                  -> 0..MaxPerKind],
                    unreadable : SUBSET (1..MaxPerKind)]
    /\ result = <<>>
    /\ PIdle /\ AIdle /\ RIdle /\ SIdle

PromptReturn ==
    /\ fn = "prompt" /\ fpc = "called"
    /\ result' = CategorySamples(SampleTypes(args.category), SampleLimit(args.category),
                                 args.typeChunks, args.unreadable)
    /\ fpc' = "returned"
    /\ UNCHANGED <<fn, args>>
    /\ UNCHANGED <<pvars, avars, rvars, svars>>

SpecPrompt == PromptInit /\ [][PromptReturn]_vars

\* C27: a category prompt samples at most 3 chunks per function-like type,
\* 2 per data-structure type and 5 per module type, the first discovered of
\* the type in discovery order; a sample whose file cannot be read is left
\* out and the prompt is built from the others.
C27_SamplesFirstReadablePerKind ==
    (fn = "prompt" /\ fpc = "returned") =>
        LET limit == IF args.category = "Core Functionality" THEN 3
                     ELSE IF args.category = "Data Structures" THEN 2 ELSE 5
            Of(type) == SelectSeq(result, LAMBDA c : c.type = type)
        IN  \A type \in DOMAIN args.typeChunks :
               /\ Len(Of(type)) <= limit
               /\ \A k \in 1..MaxPerKind :
                      (\E j \in 1..Len(Of(type)) : Of(type)[j].chunk = k)
                          <=> (/\ k <= limit /\ k <= args.typeChunks[type]
                               /\ k \notin args.unreadable)
               /\ \A j \in 1..(Len(Of(type)) - 1) :
                      Of(type)[j].chunk < Of(type)[j + 1].chunk

C27_Witness ==
    /\ fn = "prompt" /\ fpc = "returned"
    /\ args.category = "Core Functionality"
    /\ args.typeChunks["function"] = 5
    /\ args.unreadable = {2}
    /\ SelectSeq(result, LAMBDA c : c.type = "function")
           = <<[type |-> "function", chunk |-> 1], [type |-> "function", chunk |-> 3]>>

\* The sentences a..b of ss joined with single spaces.
RECURSIVE JoinWithSpace(_, _, _)
JoinWithSpace(ss, a, b) ==
    IF a > b THEN <<>>
    ELSE IF a = b THEN ss[a]
    ELSE ss[a] \o <<" ">> \o JoinWithSpace(ss, a + 1, b)

\* The segments segs are the sentences 1..last of ss, cut into consecutive
\* runs in order, one run per segment, each run joined with spaces and
\* preceded by nothing or by an end of the segment before it and a space.
SegmentsHoldSentences(segs, ss, last) ==
    \E B \in SUBSET (1..last) :
        /\ Cardinality(B) = Len(segs)
        /\ Len(segs) > 0 => last \in B
        /\ Len(segs) = 0 => last = 0
        /\ LET end(k) == IF k = 0 THEN 0
                          ELSE CHOOSE x \in B : Cardinality({y \in B : y <= x}) = k
           IN  \A k \in 1..Len(segs) :
                  LET run == JoinWithSpace(ss, end(k - 1) + 1, end(k))
                  IN  \/ segs[k] = run
                      \/ /\ k > 1
                         /\ \E j \in 1..Len(segs[k - 1]) :
                                segs[k] = SubSeq(segs[k - 1], j, Len(segs[k - 1]))
                                          \o <<" ">> \o run

\* C28 (as stated): every sentence of the text goes to exactly one returned
\* segment, the sentences keep their order across the segments, no segment
\* is empty, and only a seeded overlap prefix repeats content.
C28_EverySentenceInOneSegment ==
    Chunked =>
        /\ \A k \in 1..Len(result) : result[k] # <<>>
        /\ SegmentsHoldSentences(result, SplitSentences(args.text),
                                 Len(SplitSentences(args.text)))

\* C28 (amended): the same for every sentence but an empty last sentence,
\* which the split yields for an empty text and for whitespace after the
\* last sentence stop, and which may go to no segment.
C28_NoTextLost ==
    Chunked =>
        LET ss == SplitSentences(args.text)
        IN  /\ \A k \in 1..Len(result) : result[k] # <<>>
            /\ \/ SegmentsHoldSentences(result, ss, Len(ss))
               \/ /\ ss[Len(ss)] = <<>>
                  /\ SegmentsHoldSentences(result, ss, Len(ss) - 1)

C28_Witness ==
    /\ Chunked
    /\ Len(SplitSentences(args.text)) = 3
    /\ Len(result) = 2
    /\ args.overlapSize = 1
    /\ \E j \in 1..Len(result[1]) :
          /\ Len(result[2]) > Len(result[1]) - j + 2
          /\ SubSeq(result[2], 1, Len(result[1]) - j + 2)
                = SubSeq(result[1], j, Len(result[1])) \o <<" ">>

\* A map round is over and every call of it gave the error text.
AllChunksFailed(os) ==
    /\ os # <<>> /\ Len(os) = Len(sumChunks)
    /\ \A k \in 1..Len(os) : os[k] = [type |-> "string", value |-> ErrorSummary]

C30_ResultsInDefinitionOrder ==
    apc # "off" =>
        /\ \A k \in DOMAIN analyses : analyses[k].name = CategoryNames[k]
        /\ synth.pc # "idle" =>
              synthPrompt = SubSeq(CategoryNames, 1, Len(CategoryNames) - 1)
        /\ outputFile.kind = "combined" =>
              /\ Len(outputFile.sections) = Len(CategoryNames) - 1
              /\ \A k \in DOMAIN outputFile.sections :
                     outputFile.sections[k].name = CategoryNames[k]

C30_Witness ==
    /\ apc = "returned" /\ outputFile.kind = "combined"
    /\ provider = "vertex"
    /\ Len(outputFile.sections) = 4
    /\ outputFile.sections[1].content # outputFile.sections[4].content

====
